---------------------------- MODULE Spec2Model ----------------------------
(***************************************************************************)
(* mcp-catalog: the Health manager (internal/manager), the Registry        *)
(* (internal/config) and the aggregating proxy's HTTP session handling     *)
(* (internal/server), as state machines.                                   *)
(*                                                                         *)
(* The module holds several specifications over one tuple of variables;    *)
(* each one moves its own group of variables and leaves the others alone:  *)
(*   Spec         Check / notify / OnChange of the Health manager          *)
(*   SpecLog      addLog on one ServerInfo, with the real cap of 500       *)
(*   SpecCopy     Registry and GetInfo over an explicit heap (aliasing)    *)
(*   SpecLoop     StartHealthLoop / StopHealthLoop in discrete seconds     *)
(*   SpecProxy    POST/DELETE /mcp and the session table                   *)
(*   SpecRoute    tools/list and tools/call: aggregation and routing       *)
(*   SpecPure     the proxy's pure functions on bounded inputs             *)
(*   SpecRead     resources/list, resources/templates/list, resources/read *)
(*   SpecStdio    the upstream stdio loop: lines in, responses out         *)
(*   SpecLock     Manager.mu and Store.mu around one name and its record   *)
(*   SpecWire     one downstream session on the wire: order, ids, deadline *)
(*   SpecAll      CheckAll over a Registry that changes under it           *)
(*   SpecSession  one downstream session, step by step: doCheck,           *)
(*                doCheckStreamableHTTP, forwardStdio and the child process *)
(*   SpecLoopLive SpecLoop with weak fairness of the loop's steps          *)
(*   SpecList     concurrent list requests and the session's route maps    *)
(*   SpecStore    Registry mutations, the saved document, PUT /api/settings *)
(*   SpecOverlap  overlapping Checks of one name and its status            *)
(*   SpecOrder    the four locks and the order they are taken in           *)
(***************************************************************************)
EXTENDS Integers, Sequences, FiniteSets, TLC

(***************************************************************************)
(* Bounds of the model                                                     *)
(***************************************************************************)
\* Check invocations (one goroutine each) in Spec
MaxChecks == 1
\* OnChange registrations in Spec
MaxListeners == 1
\* addLog calls in SpecLog (more than the cap of 500 entries)
MaxAppends == 503
\* operations of the caller and the manager in SpecCopy
MaxCalls == 3
\* seconds of clock in SpecLoop
MaxTime == 12
\* sessions that initialize hands out in SpecProxy
MaxSessions == 1
\* characters of a server or tool name in SpecPure
MaxNameLen == 4
\* characters of an original resource URI in SpecPure
MaxURILen == 2
\* the largest id of a downstream response in SpecPure
MaxRespID == 2
\* entries of a JSON array, and lines of an SSE body, in SpecPure
MaxFrames == 2
\* lines read from stdin in SpecStdio
MaxLines == 2
\* lines the child writes to its stdout during one forwardStdio in SpecPure
MaxChildLines == 3
\* lines the child writes to its stderr during one Check in SpecLock
MaxStderrLines == 1
\* Checks of the one name, one after the other, in SpecLock
MaxRounds == 2
\* calls of CheckAll in SpecAll
MaxSweeps == 1

\* The names registered at start, and a name that never is
Names == {"a", "b"}
CheckNames == Names \cup {"zz"}

(***************************************************************************)
(* manager.go: constants and types                                         *)
(***************************************************************************)
StatusUnchecked == "unchecked"
StatusChecking  == "checking"
StatusHealthy   == "healthy"
StatusError     == "error"

maxLogEntries == 500

VARIABLES
    \* ---- SpecOrder: the four locks and the order they are taken in ----
    dlPc,         \* the statement each task is at in its program
    dlLock,       \* each sync.RWMutex: writer, readers, writers that wait
    \* ---- SpecOverlap: Checks of one name that overlap ----
    ovStatus,     \* info.Status of the one record
    ovError,      \* info.Error of the one record
    ovTask,       \* one Check per goroutine: its position and doCheck's error
    \* ---- SpecStore: the Registry, its document and the interval of the manager ----
    regConfig,    \* Store.config: the servers (name -> Enabled) and the interval
    regSaved,     \* the document last written to s.path with success
    regLast,      \* history: the last mutation, its error, s.config before it
    mgrHealthInterval, \* Manager.healthInterval
    setReq,       \* one PUT /api/settings per handler goroutine
    \* ---- SpecList: the list methods of the proxy, two handlers ----
    lsState,      \* the session table s.mcpState
    lsNext,       \* the next session identifier initialize hands out
    lsReq,        \* one list request per handler goroutine
    \* ---- Spec: Health manager ----
    cfgServers,   \* Store.config.MCPServers: name -> descriptor (value view)
    servers,      \* Manager.servers: name -> record id (a *ServerInfo)
    recs,         \* the ServerInfo objects ever allocated, by record id
    listeners,    \* Manager.listeners, in registration order
    chk,          \* one Check invocation per goroutine: its position and locals
    pending,      \* callback goroutines created by notify and not yet scheduled
    stuck,        \* whether some callback that was scheduled never returns
    \* history (not program state)
    hist,         \* what each Check saw and did; events and registrations
    \* ---- SpecLog: the Logs of one ServerInfo ----
    infoLogs,     \* ServerInfo.Logs
    logCount,     \* history: addLog calls so far (entry k is the k-th appended)
    \* ---- SpecCopy: the objects behind the Registry and the records ----
    heap,         \* sequence of cells; an address is an index
    storeConfig,  \* Store.config: address of the Config in force
    mServers,     \* Manager.servers: name -> address of the ServerInfo
    held,         \* what the caller got back last, or passed in and kept
    lastOp,       \* history: the operation that made this state
    calls,        \* history: operations so far
    \* ---- SpecLoop: the health loop, time in whole seconds ----
    healthInterval, \* Manager.healthInterval
    stopHealth,   \* the channel Manager.stopHealth: "open" or "closed"
    panicked,     \* the process died of a runtime panic
    loopPc,       \* where StartHealthLoop is
    loopTimer,    \* seconds left on the time.After of its select
    now,          \* the clock
    asked,        \* history: the enabling SetHealthInterval awaiting its CheckAll
    met,          \* history: the last such call answered, and after how long
    stopHist,     \* history: where the loop was at the first StopHealthLoop, and since
    \* ---- SpecProxy: the upstream HTTP endpoint /mcp ----
    mcpState,     \* Server.mcpState: session id -> route maps
    nextSid,      \* the next identifier newSessionID returns
    req,          \* the POST request being served
    deleted,      \* history: issued identifiers whose DELETE has completed
    \* ---- SpecLock: the locks around one name and its record ----
    lockMu,       \* Manager.mu: its writer and its readers
    lockStore,    \* Store.mu
    task,         \* the four tasks: statement at hand, inside it or not, locals
    lifeReg,      \* whether Store.config.MCPServers holds the name
    lifeServers,  \* Manager.servers[name]: a record id, 0 if absent
    lifeRecs,     \* the records ever allocated: the length of their Logs
    stderrLines,  \* lines read from the child's stderr so far
    lifeHist,     \* history: what GetInfo answered and when it looked; rounds
    \* ---- SpecAll: CheckAll ----
    caReg,        \* Store.config.MCPServers: name -> Enabled
    caSnap,       \* cfg, the copy CheckAll took
    caTodo,       \* the names its range has still to visit
    caActive,     \* the Checks it has called that have not returned
    caCalls,      \* history: the Checks it called, in order, and what they returned
    caPc,         \* where CheckAll is
    caSweeps,     \* history: calls of CheckAll so far
    \* ---- SpecRoute: tools/list and tools/call ----
    enabled,      \* Config.MCPServers[n].Enabled of the downstream servers
    toolRoutes,   \* the route map: proxied name -> toolRoute
    list,         \* the last tools/list response (from, en, ok are history)
    call,         \* the last tools/call: its response code and where it went
    \* ---- SpecPure: pure functions ----
    applied,      \* the last application: function, inputs, output
    \* ---- SpecRead: resources of one session or stdio connection ----
    resourceRoutes, \* mcpSession.Resources: proxy URI -> resourceRoute
    templateRoutes, \* mcpSession.ResourceTemplates
    resources,    \* the items of the last resources/list (from is history)
    read,         \* the last resources/read: its response and where it went
    \* ---- SpecSession: one downstream session ----
    sessKind,     \* "check" (doCheck, stdio), "checkHTTP", "forward" (forwardStdio)
    sessMethod,   \* the method forwardStdio forwards ("" in a check)
    sessPc,       \* the step the session is at
    child,        \* the child process: none, running, killed (not waited), reaped
    sessLogs,     \* what doCheck has logged
    sessErr,      \* the error the session returns ("" is nil)
    sessStatus,   \* ServerInfo.Status as Check sets it
    sessError,    \* ServerInfo.Error as Check sets it
    sessTools,    \* ServerInfo.Tools
    fault,        \* history: how the tools/list step failed ("" if it did not)
    sessLastCheck, \* whether ServerInfo.LastCheck is set
    \* ---- SpecStdio: the upstream stdio connection ----
    stdioPc,      \* "scan" (at in.Scan), "handle" (in the switch), "closed"
    stdinLines,   \* history: the lines read so far
    stdioReq,     \* the decoded rpcReq at hand
    stdoutLines,  \* the lines written (from is history: the line answered)
    \* ---- SpecWire: one downstream session on the wire ----
    wKind,        \* the driver
    wMethod,      \* the method of the real request
    wPc,          \* the exchange the driver is at
    wLog,         \* history: requests sent and responses received, in order
    wSid,         \* forwardHTTP's sessionID
    wClock,       \* seconds since the driver was called
    wErr          \* the error the driver returns ("" is nil)

mgrVars == <<cfgServers, servers, recs, listeners, chk, pending, stuck, hist>>

logVars == <<infoLogs, logCount>>

copyVars == <<heap, storeConfig, mServers, held, lastOp, calls>>

loopVars ==
    <<healthInterval, stopHealth, panicked, loopPc, loopTimer, now, asked, met, stopHist>>

proxyVars == <<mcpState, nextSid, req, deleted>>

routeVars == <<enabled, toolRoutes, list, call>>

pureVars == <<applied>>

lockVars ==
    <<lockMu, lockStore, task, lifeReg, lifeServers, lifeRecs, stderrLines, lifeHist>>

allVars == <<caReg, caSnap, caTodo, caActive, caCalls, caPc, caSweeps>>

storeVars == <<regConfig, regSaved, regLast, mgrHealthInterval, setReq>>

overlapVars == <<ovStatus, ovError, ovTask>>

orderVars == <<dlPc, dlLock>>

managerSide == <<mgrVars, logVars, copyVars, loopVars, proxyVars, lockVars, allVars, storeVars, overlapVars, orderVars>>

readVars == <<resourceRoutes, templateRoutes, resources, read>>

sessVars ==
    <<sessKind, sessMethod, sessPc, child, sessLogs, sessErr, sessStatus, sessError, sessTools,
      fault, sessLastCheck>>

stdioVars == <<stdioPc, stdinLines, stdioReq, stdoutLines>>

wireVars == <<wKind, wMethod, wPc, wLog, wSid, wClock, wErr>>

listVars == <<lsState, lsNext, lsReq>>

proxySide == <<routeVars, pureVars, readVars, sessVars, stdioVars, wireVars, listVars>>

vars == <<managerSide, proxySide>>

otherThanMgr == <<logVars, copyVars, loopVars, proxyVars, lockVars, allVars, storeVars, overlapVars, orderVars, proxySide>>

otherThanLog == <<mgrVars, copyVars, loopVars, proxyVars, lockVars, allVars, storeVars, overlapVars, orderVars, proxySide>>

otherThanCopy == <<mgrVars, logVars, loopVars, proxyVars, lockVars, allVars, storeVars, overlapVars, orderVars, proxySide>>

otherThanLoop == <<mgrVars, logVars, copyVars, proxyVars, lockVars, allVars, storeVars, overlapVars, orderVars, proxySide>>

otherThanProxy == <<mgrVars, logVars, copyVars, loopVars, lockVars, allVars, storeVars, overlapVars, orderVars, proxySide>>

otherThanLock == <<mgrVars, logVars, copyVars, loopVars, proxyVars, allVars, storeVars, overlapVars, orderVars, proxySide>>

otherThanAll == <<mgrVars, logVars, copyVars, loopVars, proxyVars, lockVars, storeVars, overlapVars, orderVars, proxySide>>

otherThanRoute == <<managerSide, pureVars, readVars, sessVars, stdioVars, wireVars, listVars>>

otherThanPure == <<managerSide, routeVars, readVars, sessVars, stdioVars, wireVars, listVars>>

otherThanRead == <<managerSide, routeVars, pureVars, sessVars, stdioVars, wireVars, listVars>>

otherThanSess == <<managerSide, routeVars, pureVars, readVars, stdioVars, wireVars, listVars>>

otherThanWire == <<managerSide, routeVars, pureVars, readVars, sessVars, stdioVars, listVars>>

otherThanStdio == <<managerSide, routeVars, pureVars, readVars, sessVars, wireVars, listVars>>

otherThanList == <<managerSide, routeVars, pureVars, readVars, sessVars, stdioVars, wireVars>>

otherThanStore == <<mgrVars, logVars, copyVars, loopVars, proxyVars, lockVars, allVars, overlapVars, orderVars, proxySide>>

otherThanOverlap == <<mgrVars, logVars, copyVars, loopVars, proxyVars, lockVars, allVars, storeVars, orderVars, proxySide>>

otherThanOrder == <<mgrVars, logVars, copyVars, loopVars, proxyVars, lockVars, allVars, storeVars, overlapVars, proxySide>>

Procs == 1 .. MaxChecks

(***************************************************************************)
(* config.MCPServer as the manager sees it (Args/Env live in SpecCopy).    *)
(***************************************************************************)
StdioServer(cmd) == [Type |-> "", URL |-> "", Command |-> cmd, Enabled |-> TRUE]
HTTPServer(url)  == [Type |-> "streamableHttp", URL |-> url, Command |-> "", Enabled |-> TRUE]

\* isStreamableHTTPServer: the type says so, or a URL without a command.
\* (TrimSpace/EqualFold act on strings the Registry has already normalised.)
isStreamableHTTPServer(srv) ==
    \/ srv.Type = "streamableHttp"
    \/ (srv.URL # "" /\ srv.Command = "")

LogEntry(level, msg) == [Level |-> level, Message |-> msg]

DropFirst(s, k) == SubSeq(s, k + 1, Len(s))

\* (a cap that keeps the oldest entries instead of the newest)
addLogKeepOldest(logs, entry) ==
    LET appended == Append(logs, entry)
    IN  IF Len(appended) > maxLogEntries
        THEN SubSeq(appended, 1, maxLogEntries)
        ELSE appended

\* addLog: append, then keep the last maxLogEntries entries.
addLog(logs, entry) ==
    LET appended == Append(logs, entry)
    IN  IF Len(appended) > maxLogEntries
        THEN DropFirst(appended, Len(appended) - maxLogEntries)
        ELSE appended

RECURSIVE addLogs(_, _)
addLogs(logs, entries) ==
    IF entries = <<>> THEN logs
    ELSE addLogs(addLog(logs, Head(entries)), Tail(entries))

\* getOrCreateInfo's fresh record.
NewInfo(name, srv) ==
    [Name |-> name, Config |-> srv, Status |-> StatusUnchecked, Error |-> "",
     Logs |-> <<>>, Tools |-> <<>>, LastCheck |-> FALSE, ServerName |-> ""]


(***************************************************************************)
(* Check (manager.go:166-210), one step per critical section or call.      *)
(***************************************************************************)
Active(c) == c.pc \notin {"idle", "done"}

IdleCheck == [pc |-> "idle", name |-> "", srv |-> StdioServer(""), info |-> 0, err |-> ""]

\* The line Check logs first: "command args..." or "streamableHttp url".
Target(srv) ==
    IF isStreamableHTTPServer(srv) THEN "streamableHttp " \o srv.URL
    ELSE IF srv.Command = "" THEN "(invalid config: no command/url)"
    ELSE srv.Command

\* The status Check writes before it runs the downstream session (line 179).
MarkedStatusKept(prev) == prev

MarkedStatus(prev) == StatusChecking

\* (a Check that ends healthy whatever doCheck returned)
FinalStatusAlwaysHealthy(err) == StatusHealthy

\* The status Check writes after doCheck returned err (lines 199-205).
FinalStatus(err) == IF err # "" THEN StatusError ELSE StatusHealthy

\* notify (lines 121-127): one goroutine per registered listener, none awaited.
FanoutSkipFirst(ls, p, phase) == {<<p, phase, i>> : i \in 2 .. Len(ls)}

Fanout(ls, p, phase) == {<<p, phase, i>> : i \in 1 .. Len(ls)}

\* Whether notify has to wait before it returns, given that some earlier
\* callback never returns: with "go fn(...)" it waits for none. (Calling fn
\* in line, or waiting for the callbacks, would wait for that one for ever.)
NotifyWaitsForCallbacks(neverReturns) == neverReturns

NotifyWaits(neverReturns) == FALSE

\* History: a status written to record r is seen by every Check that has
\* marked r and has not finished.
Observe(h, r, status, self) ==
    [q \in Procs |->
        IF q # self /\ chk[q].info = r /\ h[q] # <<>> /\ chk[q].pc # "done"
           /\ h[q][Len(h[q])] # status
        THEN Append(h[q], status)
        ELSE h[q]]

\* Check, lines 167-170: store.GetServer(name).
CheckStart(p, name) ==
    /\ chk[p].pc = "idle"
    /\ IF p = 1 THEN TRUE ELSE chk[p - 1].pc # "idle"
    /\ LET others == {q \in Procs : Active(chk[q]) /\ chk[q].name = name}
           found  == name \in DOMAIN cfgServers
       IN  /\ chk' = [chk EXCEPT ![p] =
                        IF found
                        THEN [pc |-> "getinfo", name |-> name, srv |-> cfgServers[name],
                              info |-> 0, err |-> ""]
                        ELSE [pc |-> "done", name |-> name, srv |-> StdioServer(""),
                              info |-> 0, err |-> "not found"]]
           /\ hist' = [hist EXCEPT !.solo =
                        [q \in Procs |->
                            IF q = p THEN others = {}
                            ELSE IF q \in others THEN FALSE ELSE hist.solo[q]]]
    /\ UNCHANGED <<cfgServers, servers, recs, listeners, pending, stuck>>

\* getOrCreateInfo (lines 129-151), under m.mu; it reads the Registry again.
CheckGetInfo(p) ==
    /\ chk[p].pc = "getinfo"
    /\ LET name == chk[p].name
       IN  IF name \in DOMAIN servers
           THEN /\ chk' = [chk EXCEPT ![p].pc = "mark", ![p].info = servers[name]]
                /\ UNCHANGED <<servers, recs>>
           ELSE IF name \notin DOMAIN cfgServers
           THEN /\ chk' = [chk EXCEPT ![p].pc = "done", ![p].err = "not found"]
                /\ UNCHANGED <<servers, recs>>
           ELSE /\ recs' = Append(recs, NewInfo(name, cfgServers[name]))
                /\ servers' = [n \in DOMAIN servers \cup {name} |->
                                 IF n = name THEN Len(recs) + 1 ELSE servers[n]]
                /\ chk' = [chk EXCEPT ![p].pc = "mark", ![p].info = Len(recs) + 1]
    /\ UNCHANGED <<cfgServers, listeners, pending, stuck, hist>>

\* Lines 178-182: under m.mu, Status = checking, Error = "", Config = *srv.
CheckMark(p) ==
    /\ chk[p].pc = "mark"
    /\ LET r    == chk[p].info
           prev == recs[r].Status
           new  == MarkedStatus(prev)
       IN  /\ recs' = [recs EXCEPT ![r].Status = new, ![r].Error = "",
                                   ![r].Config = chk[p].srv]
           /\ hist' = [hist EXCEPT !.seen =
                         [Observe(hist.seen, r, new, p) EXCEPT ![p] = <<prev, new>>]]
    /\ chk' = [chk EXCEPT ![p].pc = "log"]
    /\ UNCHANGED <<cfgServers, servers, listeners, pending, stuck>>

\* Lines 183-190: addLog(info, "info", "Checking: <target>").
CheckLog(p) ==
    /\ chk[p].pc = "log"
    /\ recs' = [recs EXCEPT ![chk[p].info].Logs =
                  addLog(@, LogEntry("info", "Checking: " \o Target(chk[p].srv)))]
    /\ chk' = [chk EXCEPT ![p].pc = "notify1"]
    /\ UNCHANGED <<cfgServers, servers, listeners, pending, stuck, hist>>

\* notify(name, info), called at line 191 (entry) and at line 207 (exit).
CheckNotify(p, phase) ==
    /\ chk[p].pc = (IF phase = "entry" THEN "notify1" ELSE "notify2")
    /\ ~NotifyWaits(stuck)
    /\ pending' = pending \cup Fanout(listeners, p, phase)
    /\ chk' = [chk EXCEPT ![p].pc = IF phase = "entry" THEN "docheck" ELSE "done"]
    /\ hist' = [hist EXCEPT !.notes[p] = Append(@, recs[chk[p].info].Status),
                            !.events = @ + 1,
                            !.spawned = @ + Cardinality(Fanout(listeners, p, phase))]
    /\ UNCHANGED <<cfgServers, servers, recs, listeners, stuck>>

\* What the downstream can do to one session: refuse the handshake, fail
\* tools/list, or answer both.
Outcomes(srv) ==
    IF isStreamableHTTPServer(srv)
    THEN IF srv.URL = "" THEN {"missing"} ELSE {"init_error", "tools_error", "ok"}
    ELSE IF srv.Command = "" THEN {"missing"} ELSE {"init_error", "tools_error", "ok"}

\* doCheck / doCheckStreamableHTTP (lines 212-363, 375-501): the error it
\* returns, the lines it logs, the tools it stores, the handshake metadata.
DoCheckResult(srv, out) ==
    LET http  == isStreamableHTTPServer(srv)
        first == IF http THEN LogEntry("info", "Connecting via streamable HTTP: " \o srv.URL)
                 ELSE LogEntry("info", "Started with PID")
    IN  CASE out = "missing" ->
               LET msg == IF http THEN "missing url for streamableHttp server"
                          ELSE "missing command for stdio server"
               IN  [err |-> msg, logs |-> <<LogEntry("error", msg)>>,
                    setTools |-> FALSE, tools |-> <<>>, meta |-> FALSE]
          [] out = "init_error" ->
               [err |-> "initialize: boom",
                logs |-> <<first, LogEntry("error", "Initialize error: boom")>>,
                setTools |-> FALSE, tools |-> <<>>, meta |-> FALSE]
          [] out = "tools_error" ->
               [err |-> "",
                logs |-> <<first, LogEntry("info", "MCP initialized"),
                           LogEntry("warn", "tools/list error: boom"),
                           LogEntry("info", "Check completed")>>,
                setTools |-> FALSE, tools |-> <<>>, meta |-> TRUE]
          [] OTHER ->
               [err |-> "",
                logs |-> <<first, LogEntry("info", "MCP initialized"),
                           LogEntry("info", "Discovered 1 tools"),
                           LogEntry("info", "Check completed")>>,
                setTools |-> TRUE, tools |-> <<"ping">>, meta |-> TRUE]

\* Line 194: err := m.doCheck(name, srv, info).
CheckDo(p, out) ==
    /\ chk[p].pc = "docheck"
    /\ out \in Outcomes(chk[p].srv)
    /\ LET res == DoCheckResult(chk[p].srv, out)
           r   == chk[p].info
       IN  /\ recs' = [recs EXCEPT
                         ![r].Logs = addLogs(@, res.logs),
                         ![r].Tools = IF res.setTools THEN res.tools ELSE @,
                         ![r].ServerName = IF res.meta THEN "echo" ELSE @]
           /\ chk' = [chk EXCEPT ![p].pc = "finish", ![p].err = res.err]
    /\ UNCHANGED <<cfgServers, servers, listeners, pending, stuck, hist>>

\* Lines 196-206: under m.mu, LastCheck = &now and the final status.
CheckFinish(p) ==
    /\ chk[p].pc = "finish"
    /\ LET r   == chk[p].info
           new == FinalStatus(chk[p].err)
       IN  /\ recs' = [recs EXCEPT ![r].LastCheck = TRUE, ![r].Status = new,
                                   ![r].Error = chk[p].err]
           /\ hist' = [hist EXCEPT !.seen =
                         [Observe(hist.seen, r, new, p) EXCEPT
                            ![p] = IF @[Len(@)] # new THEN Append(@, new) ELSE @]]
    /\ chk' = [chk EXCEPT ![p].pc = "notify2"]
    /\ UNCHANGED <<cfgServers, servers, listeners, pending, stuck>>

\* The first subscriber is one whose callback never returns (it blocks for
\* ever on its own business); the callbacks of the others return.
NeverReturns(l) == l = 1

\* The scheduler runs one callback goroutine: "go fn(name, info)" gets to fn.
TaskRun(t) ==
    /\ t \in pending
    /\ pending' = pending \ {t}
    /\ stuck' = (stuck \/ NeverReturns(t[3]))
    /\ UNCHANGED <<cfgServers, servers, recs, listeners, chk, hist>>

\* OnChange (lines 115-119): append fn to the listeners.
OnChange ==
    /\ Len(listeners) < MaxListeners
    /\ listeners' = Append(listeners, Len(listeners) + 1)
    /\ hist' = [hist EXCEPT !.lateReg = @ \/ hist.events > 0]
    /\ UNCHANGED <<cfgServers, servers, recs, chk, pending, stuck>>

MgrInit ==
    /\ cfgServers = [n \in Names |-> IF n = "a" THEN StdioServer("cmd") ELSE HTTPServer("http://b")]
    /\ servers = <<>>
    /\ recs = <<>>
    /\ listeners = <<>>
    /\ chk = [p \in Procs |-> IdleCheck]
    /\ pending = {}
    /\ stuck = FALSE
    /\ hist = [seen |-> [p \in Procs |-> <<>>], solo |-> [p \in Procs |-> TRUE],
               notes |-> [p \in Procs |-> <<>>], events |-> 0, spawned |-> 0,
               lateReg |-> FALSE]

(***************************************************************************)
(* SpecLog: addLog (manager.go:153-163) applied again and again to one     *)
(* record. The k-th entry appended carries k as its message, so that an    *)
(* entry is told from every other; its time is the moment of the call.     *)
(***************************************************************************)
Levels == <<"info", "warn", "error", "stderr">>

NthEntry(k) == LogEntry(Levels[(k % 4) + 1], k)

AppendLog ==
    /\ logCount < MaxAppends
    /\ logCount' = logCount + 1
    /\ infoLogs' = addLog(infoLogs, NthEntry(logCount + 1))
    /\ UNCHANGED otherThanLog

LogInit ==
    /\ infoLogs = <<>>
    /\ logCount = 0

(***************************************************************************)
(* SpecCopy: what a caller can reach through the values the Registry       *)
(* (config.Store) and the Health manager hand out or take in. Go's slices, *)
(* maps and pointers are references: heap is the memory, a cell per        *)
(* allocated object, and an address is an index into it. A struct          *)
(* assignment (cp := *srv, cp := *info) copies the fields, so the copy     *)
(* holds the same addresses for Args, Env, InputSchema and LastCheck.      *)
(***************************************************************************)
Cell(kind, val) == [kind |-> kind, val |-> val]

NameOrder == <<"a", "b">>

NamesIn(m) == SelectSeq(NameOrder, LAMBDA n : n \in DOMAIN m)

IndexIn(s, n) == CHOOSE i \in 1 .. Len(s) : s[i] = n

\* strings.TrimSpace on the strings the model uses (config.go:38-40)
TrimSpace(s) == IF s = " new " THEN "new" ELSE s

\* normalizeServer on the fields this specification keeps
normalizeServer(v) == [v EXCEPT !.Command = TrimSpace(v.Command)]

\* the map of s.config
StoreServers(h, cfg) == h[cfg].val

\* A descriptor as a caller builds it (decoded from a request body):
\* the struct, its args array and its env map are three new objects.
NewServerCells(base, cmd) ==
    << Cell("strs", <<"arg">>),
       Cell("map", [K |-> "v"]),
       Cell("srv", [Command |-> cmd, Args |-> base + 1, Env |-> base + 2]) >>

\* Store.Get: a new Config, a new map, and for every entry srv := *v.
StoreGetResult(h, cfg) ==
    LET m      == StoreServers(h, cfg)
        names  == NamesIn(m)
        base   == Len(h)
        copies == [i \in 1 .. Len(names) |-> Cell("srv", h[m[names[i]]].val)]
        cp     == Cell("cfg", [n \in DOMAIN m |-> base + IndexIn(names, n)])
    IN  [heap |-> h \o copies \o <<cp>>, addr |-> base + Len(names) + 1]

\* Store.GetServer: cp := *srv; return &cp (address 0 is nil, not found).
StoreGetServerResult(h, cfg, name) ==
    LET m == StoreServers(h, cfg)
    IN  IF name \notin DOMAIN m
        THEN [heap |-> h, addr |-> 0]
        ELSE [heap |-> Append(h, Cell("srv", h[m[name]].val)), addr |-> Len(h) + 1]

\* Manager.GetInfo: a fresh record for a server never checked, else
\* cp := *info with new Logs and Tools arrays filled by copy().
GetInfoResult(h, cfg, mgr, name) ==
    LET base == Len(h)
    IN  IF name \notin DOMAIN mgr
        THEN LET got == StoreGetServerResult(h, cfg, name)
                 b   == Len(got.heap)
             IN  IF got.addr = 0
                 THEN [heap |-> h, addr |-> 0]
                 ELSE [heap |-> got.heap \o
                                << Cell("logs", <<>>), Cell("tools", <<>>),
                                   Cell("info", [Name |-> name,
                                                 Config |-> got.heap[got.addr].val,
                                                 Status |-> StatusUnchecked,
                                                 Logs |-> b + 1, Tools |-> b + 2,
                                                 LastCheck |-> 0]) >>,
                       addr |-> b + 3]
        ELSE LET info == h[mgr[name]].val
             IN  [heap |-> h \o
                           << Cell("logs", h[info.Logs].val),
                              Cell("tools", h[info.Tools].val),
                              Cell("info", [info EXCEPT !.Logs = base + 1,
                                                        !.Tools = base + 2]) >>,
                  addr |-> base + 3]

\* Manager.GetAllInfo: store.Get(), then GetInfo for every name of it.
RECURSIVE GetAllInfoFrom(_, _, _, _, _)
GetAllInfoFrom(h, cfg, mgr, names, acc) ==
    IF names = <<>>
    THEN [heap |-> Append(h, Cell("infos", acc)), addr |-> Len(h) + 1]
    ELSE LET got  == GetInfoResult(h, cfg, mgr, Head(names))
             acc2 == IF got.addr = 0
                     THEN acc
                     ELSE [n \in DOMAIN acc \cup {Head(names)} |->
                              IF n = Head(names) THEN got.addr ELSE acc[n]]
         IN  GetAllInfoFrom(got.heap, cfg, mgr, Tail(names), acc2)

\* The addresses a cell holds.
Refs(c) ==
    CASE c.kind = "srv"   -> {c.val.Args, c.val.Env}
      [] c.kind = "cfg"   -> {c.val[n] : n \in DOMAIN c.val}
      [] c.kind = "infos" -> {c.val[n] : n \in DOMAIN c.val}
      [] c.kind = "tools" -> {c.val[i].InputSchema : i \in 1 .. Len(c.val)}
      [] c.kind = "info"  -> {c.val.Config.Args, c.val.Config.Env, c.val.Logs,
                              c.val.Tools, c.val.LastCheck} \ {0}
      [] OTHER            -> {}

\* Everything reachable from the addresses in S.
RECURSIVE Reach(_, _)
Reach(h, S) ==
    LET T == S \cup UNION {Refs(h[a]) : a \in S}
    IN  IF T = S THEN S ELSE Reach(h, T)

\* What a holder of a cell can assign to: a field, an element, an entry.
Slot(f, i) == [f |-> f, i |-> i]

SlotsOf(c) ==
    CASE c.kind = "srv"   -> {Slot("Command", 0)}
      [] c.kind = "info"  -> {Slot("Status", 0), Slot("Command", 0)}
      [] c.kind = "time"  -> {Slot("t", 0)}
      [] c.kind = "map"   -> {Slot(k, 0) : k \in DOMAIN c.val}
      [] c.kind = "cfg"   -> {Slot(n, 0) : n \in DOMAIN c.val}
      [] c.kind = "infos" -> {Slot(n, 0) : n \in DOMAIN c.val}
      [] OTHER            -> {Slot("elem", i) : i \in 1 .. Len(c.val)}

Without(m, n) == [k \in DOMAIN m \ {n} |-> m[k]]

\* The assignment: "X" into a string, the zero time into a time, and
\* delete() on an entry of a map of pointers.
WriteCell(c, s) ==
    CASE c.kind = "srv"   -> [c EXCEPT !.val.Command = "X"]
      [] c.kind = "info"  -> IF s.f = "Status"
                             THEN [c EXCEPT !.val.Status = "X"]
                             ELSE [c EXCEPT !.val.Config.Command = "X"]
      [] c.kind = "time"  -> [c EXCEPT !.val = 0]
      [] c.kind = "map"   -> [c EXCEPT !.val[s.f] = "X"]
      [] c.kind = "cfg"   -> [c EXCEPT !.val = Without(c.val, s.f)]
      [] c.kind = "infos" -> [c EXCEPT !.val = Without(c.val, s.f)]
      [] c.kind = "strs"  -> [c EXCEPT !.val[s.i] = "X"]
      [] c.kind = "logs"  -> [c EXCEPT !.val[s.i].Message = "X"]
      [] OTHER            -> [c EXCEPT !.val[s.i].Name = "X"]

\* The value of a descriptor, of a record, of the Registry and of the
\* Health manager's records, with every address followed.
DeepServer(h, v) ==
    [Command |-> v.Command, Args |-> h[v.Args].val, Env |-> h[v.Env].val]

DeepInfo(h, v) ==
    [Name |-> v.Name, Config |-> DeepServer(h, v.Config), Status |-> v.Status,
     Logs |-> h[v.Logs].val,
     Tools |-> [i \in 1 .. Len(h[v.Tools].val) |->
                  [Name |-> h[v.Tools].val[i].Name,
                   InputSchema |-> h[h[v.Tools].val[i].InputSchema].val]],
     LastCheck |-> IF v.LastCheck = 0 THEN -1 ELSE h[v.LastCheck].val]

StoredRegistry(h, cfg) ==
    [n \in DOMAIN StoreServers(h, cfg) |-> DeepServer(h, h[StoreServers(h, cfg)[n]].val)]

StoredInfos(h, mgr) == [n \in DOMAIN mgr |-> DeepInfo(h, h[mgr[n]].val)]

HeldInfos(h, hd) ==
    CASE hd.kind = "info"  -> <<DeepInfo(h, h[hd.addr].val)>>
      [] hd.kind = "infos" -> [n \in DOMAIN h[hd.addr].val |->
                                  DeepInfo(h, h[h[hd.addr].val[n]].val)]
      [] OTHER             -> <<>>

Called(op) ==
    /\ calls < MaxCalls
    /\ calls' = calls + 1
    /\ lastOp' = op

StoreGet ==
    LET got == StoreGetResult(heap, storeConfig)
    IN  /\ Called("Get")
        /\ heap' = got.heap
        /\ held' = [kind |-> "cfg", addr |-> got.addr]
        /\ UNCHANGED <<storeConfig, mServers>>

StoreGetServer(name) ==
    LET got == StoreGetServerResult(heap, storeConfig, name)
    IN  /\ Called("GetServer")
        /\ heap' = got.heap
        /\ held' = IF got.addr = 0 THEN [kind |-> "none", addr |-> 0]
                                   ELSE [kind |-> "srv", addr |-> got.addr]
        /\ UNCHANGED <<storeConfig, mServers>>

\* Store.AddServer(name, srv) with a descriptor the caller has just built
\* and keeps: normalizeServer(srv) and s.config.MCPServers[name] = srv.
StoreAddServer(name) ==
    LET base  == Len(heap)
        cells == NewServerCells(base, " new ")
        srv   == base + 3
        h1    == heap \o cells
        h2    == [h1 EXCEPT ![srv].val = normalizeServer(@)]
        m     == StoreServers(h2, storeConfig)
    IN  /\ Called("AddServer")
        /\ heap' = [h2 EXCEPT ![storeConfig].val =
                        [n \in DOMAIN m \cup {name} |-> IF n = name THEN srv ELSE m[n]]]
        /\ held' = [kind |-> "srv", addr |-> srv]
        /\ UNCHANGED <<storeConfig, mServers>>

\* Store.Set(cfg) with a Config of one server the caller has just built
\* and keeps: normalizeConfig(cfg) and s.config = cfg.
StoreSet(name) ==
    LET base  == Len(heap)
        cells == NewServerCells(base, " new ")
        srv   == base + 3
        h1    == heap \o cells \o <<Cell("cfg", [n \in {name} |-> srv])>>
    IN  /\ Called("Set")
        /\ heap' = [h1 EXCEPT ![srv].val = normalizeServer(@)]
        /\ storeConfig' = base + 4
        /\ held' = [kind |-> "cfg", addr |-> base + 4]
        /\ UNCHANGED mServers

\* Manager.Check(name) as one step (its interleavings are Spec's subject):
\* getOrCreateInfo, info.Config = *srv, the log lines, on success
\* info.Tools = result.Tools (decoded into new arrays), info.LastCheck = &now.
MgrCheck(name, ok) ==
    LET m       == StoreServers(heap, storeConfig)
        created == name \notin DOMAIN mServers
        base    == Len(heap)
        h1      == IF created
                   THEN heap \o << Cell("logs", <<>>), Cell("tools", <<>>),
                                   Cell("info", [Name |-> name,
                                                 Config |-> heap[m[name]].val,
                                                 Status |-> StatusUnchecked,
                                                 Logs |-> base + 1, Tools |-> base + 2,
                                                 LastCheck |-> 0]) >>
                   ELSE heap
        ia      == IF created THEN base + 3 ELSE mServers[name]
        b1      == Len(h1)
        h2      == h1 \o <<Cell("time", calls + 1)>> \o
                   (IF ok THEN << Cell("strs", <<"{}">>),
                                  Cell("tools", <<[Name |-> "tool", InputSchema |-> b1 + 2]>>) >>
                          ELSE <<>>)
        info    == h1[ia].val
        lines   == << LogEntry("info", "Checking"),
                      IF ok THEN LogEntry("info", "Check completed")
                            ELSE LogEntry("error", "Check failed") >>
    IN  /\ name \in DOMAIN m
        /\ Called("Check")
        /\ heap' = [h2 EXCEPT ![ia].val = [info EXCEPT
                                              !.Config = heap[m[name]].val,
                                              !.Status = FinalStatus(IF ok THEN "" ELSE "failed"),
                                              !.Tools = IF ok THEN b1 + 3 ELSE @,
                                              !.LastCheck = b1 + 1],
                                ![info.Logs].val = addLogs(@, lines)]
        /\ mServers' = [n \in DOMAIN mServers \cup {name} |->
                          IF n = name THEN ia ELSE mServers[n]]
        /\ UNCHANGED <<storeConfig, held>>

MgrGetInfo(name) ==
    LET got == GetInfoResult(heap, storeConfig, mServers, name)
    IN  /\ Called("GetInfo")
        /\ heap' = got.heap
        /\ held' = IF got.addr = 0 THEN [kind |-> "none", addr |-> 0]
                                   ELSE [kind |-> "info", addr |-> got.addr]
        /\ UNCHANGED <<storeConfig, mServers>>

MgrGetAllInfo ==
    LET cfg == StoreGetResult(heap, storeConfig)
        got == GetAllInfoFrom(cfg.heap, storeConfig, mServers,
                              NamesIn(cfg.heap[cfg.addr].val), <<>>)
    IN  /\ Called("GetAllInfo")
        /\ heap' = got.heap
        /\ held' = [kind |-> "infos", addr |-> got.addr]
        /\ UNCHANGED <<storeConfig, mServers>>

\* The caller assigns through what it holds.
CallerWrite(a, s) ==
    /\ held.kind # "none"
    /\ a \in Reach(heap, {held.addr})
    /\ s \in SlotsOf(heap[a])
    /\ WriteCell(heap[a], s) # heap[a]
    /\ Called("write")
    /\ heap' = [heap EXCEPT ![a] = WriteCell(@, s)]
    /\ UNCHANGED <<storeConfig, mServers, held>>

\* A Registry loaded with one server "a"; no server checked yet.
CopyInit ==
    /\ heap = NewServerCells(0, "cmd") \o <<Cell("cfg", [n \in {"a"} |-> 3])>>
    /\ storeConfig = 4
    /\ mServers = <<>>
    /\ held = [kind |-> "none", addr |-> 0]
    /\ lastOp = "New"
    /\ calls = 0

(***************************************************************************)
(* SpecLoop: StartHealthLoop, SetHealthInterval and StopHealthLoop over a  *)
(* clock that counts seconds. A timer that is due fires, and a step that   *)
(* takes no time is taken, before the clock moves on; CheckAll takes any   *)
(* time. A panic outside any recover ends the process.                     *)
(***************************************************************************)
Intervals == {-1, 0, 1, 2}

\* time.After(5 * time.Second) of the disabled branch
PollSeconds == 5

\* (a disabled loop that polls more slowly)
WaitSecondsSlow(interval) == IF interval <= 0 THEN PollSeconds + 1 ELSE interval

\* The duration of the timer the loop selects on, for the interval it read.
WaitSeconds(interval) == IF interval <= 0 THEN PollSeconds ELSE interval

NoCall == [at |-> -1, v |-> 0]

\* (a wait that does not listen to the stop channel: a plain time.Sleep)
ReadyCasesTimerOnly(stop, timer) == IF timer = 0 THEN {"timer"} ELSE {}

\* The cases of the loop's select that can proceed: <-m.stopHealth once the
\* channel is closed, <-time.After(d) once d has passed.
ReadyCases(stop, timer) ==
    (IF stop = "closed" THEN {"stop"} ELSE {}) \cup (IF timer = 0 THEN {"timer"} ELSE {})

NotStopped == [at |-> -1, pc |-> "", timer |-> 0, started |-> 0, returnedAt |-> -1]

Alive == ~panicked

\* SetHealthInterval(v). The history keeps a call that enables (v > 0) a
\* loop that is running disabled: interval <= 0, loop at its re-read or in
\* its 5-second wait, not stopped. Any other change of the interval ends
\* what an earlier call was waiting for.
SetHealthInterval(v) ==
    /\ Alive
    /\ healthInterval' = v
    /\ asked' = IF v = healthInterval THEN asked
                ELSE IF /\ v > 0
                        /\ healthInterval <= 0
                        /\ loopPc \in {"read", "poll"}
                        /\ stopHealth = "open"
                     THEN [at |-> now, v |-> v]
                     ELSE NoCall
    /\ UNCHANGED <<stopHealth, panicked, loopPc, loopTimer, now, met, stopHist>>

\* StopHealthLoop: close(m.stopHealth); closing a closed channel panics.
StopHealthLoop ==
    /\ Alive
    /\ IF stopHealth = "open"
       THEN /\ stopHealth' = "closed"
            /\ UNCHANGED panicked
       ELSE /\ panicked' = TRUE
            /\ UNCHANGED stopHealth
    /\ asked' = NoCall
    /\ stopHist' = IF stopHealth = "open"
                   THEN [NotStopped EXCEPT !.at = now, !.pc = loopPc, !.timer = loopTimer]
                   ELSE stopHist
    /\ UNCHANGED <<healthInterval, loopPc, loopTimer, now, met>>

\* top of the loop: read the interval, start the timer of the select
LoopRead ==
    /\ Alive
    /\ loopPc = "read"
    /\ loopPc' = IF healthInterval <= 0 THEN "poll" ELSE "wait"
    /\ loopTimer' = WaitSeconds(healthInterval)
    /\ UNCHANGED <<healthInterval, stopHealth, panicked, now, asked, met, stopHist>>

\* case <-m.stopHealth: return
LoopStopped ==
    /\ Alive
    /\ loopPc \in {"poll", "wait"}
    /\ "stop" \in ReadyCases(stopHealth, loopTimer)
    /\ loopPc' = "returned"
    /\ stopHist' = [stopHist EXCEPT !.returnedAt = now]
    /\ UNCHANGED <<healthInterval, stopHealth, panicked, loopTimer, now, asked, met>>

\* case <-time.After(5 * time.Second): continue
LoopPollFired ==
    /\ Alive
    /\ loopPc = "poll"
    /\ "timer" \in ReadyCases(stopHealth, loopTimer)
    /\ loopPc' = "read"
    /\ UNCHANGED <<healthInterval, stopHealth, panicked, loopTimer, now, asked, met, stopHist>>

\* case <-time.After(interval): m.CheckAll() starts
LoopCheckAll ==
    /\ Alive
    /\ loopPc = "wait"
    /\ "timer" \in ReadyCases(stopHealth, loopTimer)
    /\ loopPc' = "checkall"
    /\ stopHist' = IF stopHealth = "closed"
                   THEN [stopHist EXCEPT !.started = @ + 1]
                   ELSE stopHist
    /\ asked' = NoCall
    /\ met' = IF asked.at >= 0 THEN [after |-> now - asked.at, v |-> asked.v] ELSE met
    /\ UNCHANGED <<healthInterval, stopHealth, panicked, loopTimer, now>>

\* m.CheckAll() returns
LoopCheckAllDone ==
    /\ Alive
    /\ loopPc = "checkall"
    /\ loopPc' = "read"
    /\ UNCHANGED <<healthInterval, stopHealth, panicked, loopTimer, now, asked, met, stopHist>>

\* One second passes, unless the loop has a step to take now.
Tick ==
    /\ Alive
    /\ now < MaxTime
    /\ loopPc # "read"
    /\ loopPc \in {"poll", "wait"} => ReadyCases(stopHealth, loopTimer) = {}
    /\ now' = now + 1
    /\ loopTimer' = IF loopPc \in {"poll", "wait"} THEN loopTimer - 1 ELSE loopTimer
    /\ UNCHANGED <<healthInterval, stopHealth, panicked, loopPc, asked, met, stopHist>>

\* New with a stored interval of 0, and go mgr.StartHealthLoop().
LoopInit ==
    /\ healthInterval = 0
    /\ stopHealth = "open"
    /\ panicked = FALSE
    /\ loopPc = "read"
    /\ loopTimer = 0
    /\ now = 0
    /\ asked = NoCall
    /\ met = [after |-> -1, v |-> 0]
    /\ stopHist = NotStopped

(***************************************************************************)
(* SpecProxy: handleMCPProxy. One POST is served step by step (its reads   *)
(* and writes of mcpState are separate critical sections), and a DELETE,   *)
(* one critical section, can fall between any two of its steps. A session  *)
(* identifier is a number: newSessionID's 16 random bytes never repeat.    *)
(* Header 0 is an absent MCP-Session-Id; MaxSessions + 1 is never issued;  *)
(* a client can present an identifier only once it has been issued.        *)
(***************************************************************************)
ListMethods == {"tools/list", "prompts/list", "resources/list", "resources/templates/list"}

ForwardMethods == {"tools/call", "prompts/get", "resources/read"}

Methods == {"initialize", "notifications/initialized", "bogus/method"}
               \cup ListMethods \cup ForwardMethods

Headers == 0 .. MaxSessions + 1

\* what a client can put in MCP-Session-Id when next identifiers are unissued
Presentable(next) == (0 .. next - 1) \cup {MaxSessions + 1}

\* params of a forwarding method: undecodable, no name, a name of the
\* form server__item, a name of no such form
Params == {"invalid", "", "a__t", "plain"}

NoResp == [http |-> 0, code |-> 0, msg |-> "", sid |-> 0]

\* writeRPCError: a JSON-RPC error; no status line and no session header set
RPCError(code, msg) == [http |-> 200, code |-> code, msg |-> msg, sid |-> 0]

\* writeRPCResult / writeRawResult
RPCResult(sid) == [http |-> 200, code |-> 0, msg |-> "", sid |-> sid]

HTTPReply(status, sid) == [http |-> status, code |-> 0, msg |-> "", sid |-> sid]

IdleReq == [pc |-> "idle", verb |-> "", body |-> "", method |-> "", sid |-> 0,
            param |-> "", routes |-> {}, wasLive |-> FALSE, afterDelete |-> FALSE,
            called |-> FALSE, wrote |-> FALSE, resp |-> NoResp]

NewSession == [Tools |-> {}, Prompts |-> {}, Resources |-> {}, ResourceTemplates |-> {}]

\* sessionID == "" || !s.hasSession(sessionID), negated
hasSession(st, sid) == sid # 0 /\ sid \in DOMAIN st

\* the route map a method's list call stores into
RouteField(method) ==
    CASE method \in {"tools/list", "tools/call"} -> "Tools"
      [] method \in {"prompts/list", "prompts/get"} -> "Prompts"
      [] method = "resources/templates/list" -> "ResourceTemplates"
      [] OTHER -> "Resources"

ItemWord(method) ==
    CASE method = "tools/call" -> "tool"
      [] method = "prompts/get" -> "prompt"
      [] OTHER -> "resource"

RequiredWord(method) == IF method = "resources/read" THEN "uri" ELSE "name"

\* strings.SplitN(name, "__", 2) gives two parts (for resources/read:
\* parseProxyResourceURI accepts the uri)
Qualified(p) == p = "a__t"

\* resolveToolRoute / resolvePromptRoute / resolveResourceRoute
Resolves(st, sid, method, p) ==
    \/ /\ sid \in DOMAIN st
       /\ \/ p \in st[sid][RouteField(method)]
          \/ method = "resources/read" /\ p \in st[sid].ResourceTemplates
    \/ Qualified(p)

\* A request arrives. Another verb than POST or DELETE is refused, a body
\* that does not decode is refused.
Receive(verb, body, method, sid, param) ==
    /\ req.pc = "idle"
    /\ sid \in Presentable(nextSid)
    /\ method = "initialize" => nextSid <= MaxSessions
    /\ req' = [IdleReq EXCEPT
                 !.verb = verb, !.body = body, !.sid = sid,
                 !.method = IF verb = "POST" /\ body = "json" THEN method ELSE "",
                 !.param = IF verb = "POST" /\ body = "json" /\ method \in ForwardMethods
                           THEN param ELSE "",
                 !.afterDelete = sid \in deleted,
                 !.pc = IF verb = "POST" /\ body = "json" THEN "dispatch" ELSE "done",
                 !.resp = IF verb # "POST" THEN HTTPReply(405, 0)
                          ELSE IF body # "json" THEN HTTPReply(400, 0)
                          ELSE NoResp]
    /\ UNCHANGED <<mcpState, nextSid, deleted>>

\* switch req.Method: initialize makes a session; every case that names a
\* method checks the session; the default case does not.
Dispatch ==
    /\ req.pc = "dispatch"
    /\ LET m    == req.method
           live == hasSession(mcpState, req.sid)
           r    == [req EXCEPT !.wasLive = req.sid # 0 /\ req.sid \in DOMAIN mcpState]
           fail(code, msg) == [r EXCEPT !.pc = "done", !.resp = RPCError(code, msg)]
       IN  IF m = "initialize"
           THEN /\ mcpState' = [k \in DOMAIN mcpState \cup {nextSid} |->
                                   IF k = nextSid THEN NewSession ELSE mcpState[k]]
                /\ nextSid' = nextSid + 1
                /\ req' = [r EXCEPT !.pc = "done", !.wrote = TRUE,
                                    !.resp = RPCResult(nextSid)]
           ELSE /\ UNCHANGED <<mcpState, nextSid>>
                /\ req' =
                     IF m \notin Methods \/ m = "bogus/method"
                     THEN fail(-32601, "method not found")
                     ELSE IF ~live
                     THEN fail(-32000, "missing or invalid MCP session")
                     ELSE IF m = "notifications/initialized"
                     THEN [r EXCEPT !.pc = "done", !.resp = HTTPReply(204, req.sid)]
                     ELSE IF m \in ListMethods
                     THEN [r EXCEPT !.pc = "aggregate"]
                     ELSE IF req.param = "invalid"
                     THEN fail(-32602, "invalid " \o m \o " params")
                     ELSE IF req.param = ""
                     THEN fail(-32602, m \o " " \o RequiredWord(m) \o " is required")
                     ELSE [r EXCEPT !.pc = "resolve"]
    /\ UNCHANGED deleted

\* aggregateTools and its like: the downstream servers are asked
Aggregate(routes) ==
    /\ req.pc = "aggregate"
    /\ req' = [req EXCEPT !.pc = "update", !.called = TRUE, !.routes = routes]
    /\ UNCHANGED <<mcpState, nextSid, deleted>>

\* updateSessionTools and its like (nothing is stored when the session is
\* gone), then the result is written
UpdateSession ==
    /\ req.pc = "update"
    /\ IF req.sid \in DOMAIN mcpState
       THEN /\ mcpState' = [mcpState EXCEPT ![req.sid][RouteField(req.method)] = req.routes]
            /\ req' = [req EXCEPT !.pc = "done", !.wrote = TRUE, !.resp = RPCResult(req.sid)]
       ELSE /\ UNCHANGED mcpState
            /\ req' = [req EXCEPT !.pc = "done", !.resp = RPCResult(req.sid)]
    /\ UNCHANGED <<nextSid, deleted>>

Resolve ==
    /\ req.pc = "resolve"
    /\ req' = IF Resolves(mcpState, req.sid, req.method, req.param)
              THEN [req EXCEPT !.pc = "forward"]
              ELSE [req EXCEPT !.pc = "done",
                        !.resp = RPCError(-32601, ItemWord(req.method) \o " not found")]
    /\ UNCHANGED <<mcpState, nextSid, deleted>>

\* callTool / forwardPromptGet / forwardResourceRead
Forward(out) ==
    /\ req.pc = "forward"
    /\ req' = [req EXCEPT !.pc = "done",
                 !.called = out # "no_server",
                 !.resp = IF out = "ok" THEN RPCResult(req.sid)
                          ELSE RPCError(-32000, out)]
    /\ UNCHANGED <<mcpState, nextSid, deleted>>

\* the response has been sent
Respond ==
    /\ req.pc = "done"
    /\ req' = IdleReq
    /\ UNCHANGED <<mcpState, nextSid, deleted>>

\* handleMCPDelete, from Lock to the 204
Delete(sid) ==
    /\ sid \in Presentable(nextSid)
    /\ sid # 0
    /\ mcpState' = [k \in DOMAIN mcpState \ {sid} |-> mcpState[k]]
    /\ deleted' = deleted \cup ({sid} \cap (1 .. nextSid - 1))
    /\ UNCHANGED <<nextSid, req>>

\* New: no session yet
ProxyInit ==
    /\ mcpState = <<>>
    /\ nextSid = 1
    /\ req = IdleReq
    /\ deleted = {}

(***************************************************************************)
(* SpecRoute: tools/list and tools/call of the proxy (part_002, part_001). *)
(* A string is the sequence of its characters, so that "+" and SplitN are  *)
(* computed.                                                               *)
(***************************************************************************)
\* strings.Index: where sep first occurs in s, 0 when it does not
IndexOf(s, sep) ==
    LET at == {i \in 1 .. Len(s) - Len(sep) + 1 : SubSeq(s, i, i + Len(sep) - 1) = sep}
    IN  IF at = {} THEN 0 ELSE CHOOSE i \in at : \A j \in at : i <= j

\* strings.SplitN(s, sep, 2)
SplitN2(s, sep) ==
    LET i == IndexOf(s, sep)
    IN  IF i = 0 THEN <<s>>
        ELSE <<SubSeq(s, 1, i - 1), SubSeq(s, i + Len(sep), Len(s))>>

\* the separator "__" of proxied tool and prompt names
NameSep == <<"_", "_">>

\* serverName + "__" + t.Name
ProxiedName(serverName, toolName) == serverName \o NameSep \o toolName

toolRoute(serverName, toolName) == [ServerName |-> serverName, ToolName |-> toolName]

NoRoute == toolRoute(<<>>, <<>>)

\* The downstream servers of the Registry and the tools each one exports.
ServerA  == <<"a">>
ServerAB == <<"a", "_", "_", "b">>
ServerD  == <<"d">>
ToolC    == <<"c">>
ToolBC   == <<"b", "_", "_", "c">>
ToolP    == <<"p">>

RouteServers == {ServerA, ServerAB, ServerD}

Exports == (ServerA :> <<ToolP, ToolBC>>) @@ (ServerAB :> <<ToolC>>) @@ (ServerD :> <<ToolP>>)

\* the orders in which a range over the map may visit the servers
Orders(S) == {o \in [1 .. Cardinality(S) -> S] : \A i, j \in DOMAIN o : o[i] = o[j] => i = j}

\* listTools: the downstream's tools, or an error
listTools(serverName, ok) ==
    IF ok THEN [err |-> FALSE, tools |-> Exports[serverName]]
    ELSE [err |-> TRUE, tools |-> <<>>]

\* (no server is passed over)
SkipsNone(en) == FALSE

\* aggregateTools: srv == nil || !srv.Enabled
Skips(en) == ~en

\* aggregateTools: the inner loop over one server's tools
RECURSIVE AppendTools(_, _, _)
AppendTools(serverName, serverTools, acc) ==
    IF serverTools = <<>> THEN acc
    ELSE LET t == Head(serverTools)
             name == ProxiedName(serverName, t)
         IN  AppendTools(serverName, Tail(serverTools),
                 [tools  |-> Append(acc.tools, [Name |-> name, from |-> toolRoute(serverName, t)]),
                  routes |-> (name :> toolRoute(serverName, t)) @@ acc.routes])

\* aggregateTools: the outer loop, in the order the map range takes
RECURSIVE aggregateToolsFrom(_, _, _, _)
aggregateToolsFrom(order, en, ok, acc) ==
    IF order = <<>> THEN acc
    ELSE LET serverName == Head(order)
             listing == listTools(serverName, ok[serverName])
         IN  IF Skips(en[serverName]) \/ listing.err
             THEN aggregateToolsFrom(Tail(order), en, ok, acc)
             ELSE aggregateToolsFrom(Tail(order), en, ok,
                      AppendTools(serverName, listing.tools, acc))

aggregateTools(order, en, ok) ==
    aggregateToolsFrom(order, en, ok, [tools |-> <<>>, routes |-> <<>>])

\* resolveToolRoute with a session id that names no session
resolveToolRoute(tool) ==
    LET parts == SplitN2(tool, NameSep)
    IN  IF Len(parts) # 2 THEN [ok |-> FALSE, route |-> NoRoute]
        ELSE [ok |-> TRUE, route |-> toolRoute(parts[1], parts[2])]

\* tools/call: toolRoutes[p.Name], else resolveToolRoute
lookupTool(routes, name) ==
    IF name \in DOMAIN routes THEN [ok |-> TRUE, route |-> routes[name]]
    ELSE resolveToolRoute(name)

NoList == [kind |-> "none", tools |-> <<>>, en |-> <<>>, ok |-> <<>>]

NoToolCall == [name |-> <<>>, code |-> 0, forwarded |-> FALSE, to |-> NoRoute, done |-> FALSE]

\* the names a client calls: every one that can be listed, one of a server
\* the Registry does not have, one without separator, the empty one
CallNames ==
    {ProxiedName(n, t) : n \in RouteServers, t \in {ToolC, ToolBC, ToolP}}
        \cup {<<"x", "_", "_", "y">>, ToolP, <<>>}

\* Store.AddServer through PUT /api/servers/{name}: the Enabled flag changes
RegistrySet(n, en) ==
    /\ enabled[n] # en
    /\ enabled' = [enabled EXCEPT ![n] = en]
    /\ UNCHANGED <<toolRoutes, list, call>>

\* tools/list: aggregateTools, the route map replaced, the result written
ToolsList(order, ok) ==
    LET r == aggregateTools(order, enabled, ok)
    IN  /\ toolRoutes' = r.routes
        /\ list' = [kind |-> "result", tools |-> r.tools, en |-> enabled, ok |-> ok]
        /\ call' = NoToolCall
        /\ UNCHANGED enabled

\* tools/call, from the decoding of the params to the response; out is what
\* the downstream does with the forwarded call
ToolsCall(name, out) ==
    LET r == lookupTool(toolRoutes, name)
        reply(code, fwd, to) ==
            [name |-> name, code |-> code, forwarded |-> fwd, to |-> to, done |-> TRUE]
    IN  /\ call' = IF name = <<>> THEN reply(-32602, FALSE, NoRoute)
                   ELSE IF ~r.ok THEN reply(-32601, FALSE, NoRoute)
                   ELSE IF r.route.ServerName \notin RouteServers
                        THEN reply(-32000, FALSE, NoRoute)
                   ELSE reply(IF out = "ok" THEN 0 ELSE -32000, TRUE, r.route)
        /\ UNCHANGED <<enabled, toolRoutes, list>>

RouteInit ==
    /\ enabled = [n \in RouteServers |-> TRUE]
    /\ toolRoutes = <<>>
    /\ list = NoList
    /\ call = NoToolCall

(***************************************************************************)
(* SpecPure: the proxy's pure functions, applied to inputs from bounded    *)
(* sets; applied holds the last application.                               *)
(***************************************************************************)
\* the characters of the names that the resolution is tried on
NameChars == {"a", "_"}

NameInputs == UNION {[1 .. k -> NameChars] : k \in 0 .. MaxNameLen}

NotApplied == [fn |-> "none"]

\* resolveToolRoute("", n + "__" + t) for some names n, t
ResolveProxied ==
    /\ applied = NotApplied
    /\ \E n \in NameInputs, t \in NameInputs :
          applied' = [fn |-> "resolveToolRoute", n |-> n, t |-> t, joined |-> TRUE,
                      out |-> resolveToolRoute(ProxiedName(n, t))]

\* resolveToolRoute("", name) for some name as the client sent it
ResolvePlain ==
    /\ applied = NotApplied
    /\ \E name \in NameInputs :
          applied' = [fn |-> "resolveToolRoute", n |-> name, t |-> <<>>, joined |-> FALSE,
                      out |-> resolveToolRoute(name)]

(***************************************************************************)
(* buildProxyResourceURI / parseProxyResourceURI. The original URI is hex  *)
(* encoded byte by byte.                                                   *)
(***************************************************************************)
\* "mcp-catalog://resource"
ProxyScheme ==
    <<"m", "c", "p", "-", "c", "a", "t", "a", "l", "o", "g", ":", "/", "/",
      "r", "e", "s", "o", "u", "r", "c", "e">>

proxyResourcePrefix == ProxyScheme \o <<"/">>

proxyResourceTemplatePrefix ==
    ProxyScheme \o <<"-", "t", "e", "m", "p", "l", "a", "t", "e", "/">>

\* the byte of each character an original URI is made of here
Code == [c \in {"a", "/", "z"} |-> CASE c = "a" -> 97 [] c = "/" -> 47 [] c = "z" -> 122]

\* the character of a byte; a byte outside Code is written "#" and its number
Chr(k) ==
    IF \E c \in DOMAIN Code : Code[c] = k
    THEN CHOOSE c \in DOMAIN Code : Code[c] = k
    ELSE "#" \o ToString(k)

HexDigits ==
    <<"0", "1", "2", "3", "4", "5", "6", "7", "8", "9", "a", "b", "c", "d", "e", "f">>

\* (the low half byte written first)
HexPairLowFirst(c) == <<HexDigits[(Code[c] % 16) + 1], HexDigits[(Code[c] \div 16) + 1]>>

\* hex.EncodeToString of one byte: high half byte, then low
HexPair(c) == <<HexDigits[(Code[c] \div 16) + 1], HexDigits[(Code[c] % 16) + 1]>>

\* hex.EncodeToString
RECURSIVE HexEncode(_)
HexEncode(str) ==
    IF str = <<>> THEN <<>> ELSE HexPair(Head(str)) \o HexEncode(Tail(str))

\* the value of a hex digit, -1 for any other character (upper case left out)
HexValue(d) ==
    IF \E i \in DOMAIN HexDigits : HexDigits[i] = d
    THEN (CHOOSE i \in DOMAIN HexDigits : HexDigits[i] = d) - 1
    ELSE -1

\* hex.DecodeString: an error for an odd length or a character that is no
\* hex digit
RECURSIVE HexDecode(_)
HexDecode(h) ==
    IF h = <<>> THEN [err |-> FALSE, str |-> <<>>]
    ELSE IF Len(h) = 1 \/ HexValue(h[1]) < 0 \/ HexValue(h[2]) < 0
         THEN [err |-> TRUE, str |-> <<>>]
    ELSE LET rest == HexDecode(SubSeq(h, 3, Len(h)))
         IN  IF rest.err THEN rest
             ELSE [err |-> FALSE,
                   str |-> <<Chr(16 * HexValue(h[1]) + HexValue(h[2]))>> \o rest.str]

HasPrefix(str, prefix) ==
    Len(str) >= Len(prefix) /\ SubSeq(str, 1, Len(prefix)) = prefix

TrimPrefix(str, prefix) ==
    IF HasPrefix(str, prefix) THEN SubSeq(str, Len(prefix) + 1, Len(str)) ELSE str

resourceRoute(serverName, originalURI, template) ==
    [ServerName |-> serverName, OriginalURI |-> originalURI, TemplateMode |-> template]

NoResourceRoute == resourceRoute(<<>>, <<>>, FALSE)

buildProxyResourceURI(serverName, originalURI, template) ==
    IF template
    THEN proxyResourceTemplatePrefix \o serverName \o <<"/">> \o HexEncode(originalURI)
    ELSE proxyResourcePrefix \o serverName \o <<"/">> \o HexEncode(originalURI)

parseProxyResourceURI(uri) ==
    LET template == HasPrefix(uri, proxyResourceTemplatePrefix)
        prefix == IF template THEN proxyResourceTemplatePrefix ELSE proxyResourcePrefix
        parts == SplitN2(TrimPrefix(uri, prefix), <<"/">>)
        notFound == [ok |-> FALSE, route |-> NoResourceRoute]
    IN  IF ~template /\ ~HasPrefix(uri, proxyResourcePrefix) THEN notFound
        ELSE IF Len(parts) # 2 THEN notFound
        ELSE IF parts[1] = <<>> \/ parts[2] = <<>> THEN notFound
        ELSE IF HexDecode(parts[2]).err THEN notFound
        ELSE [ok |-> TRUE,
              route |-> resourceRoute(parts[1], HexDecode(parts[2]).str, template)]

\* server names and original URIs the codec is tried on
CodecNames == {<<>>, <<"a">>, <<"a", "_", "_", "b">>, <<"a", "/", "b">>}

URIInputs == UNION {[1 .. k -> DOMAIN Code] : k \in 0 .. MaxURILen}

\* the parts a URI sent by a client is made of
RawPrefixes ==
    [none |-> <<"h", "t", "t", "p", ":", "/", "/">>,
     resource |-> proxyResourcePrefix,
     template |-> proxyResourceTemplatePrefix]

RawServers == {<<>>, <<"a">>}

RawHex == {<<>>, <<"6">>, <<"z", "z">>, <<"6", "1", "g">>, <<"6", "1">>, <<"2", "f", "6", "1">>}

\* parseProxyResourceURI(buildProxyResourceURI(n, s, t)) for some n, s, t
CodecRoundTrip ==
    /\ applied = NotApplied
    /\ \E n \in CodecNames, str \in URIInputs, t \in BOOLEAN :
          applied' = [fn |-> "parseProxyResourceURI", built |-> TRUE,
                      n |-> n, s |-> str, t |-> t,
                      uri |-> buildProxyResourceURI(n, str, t),
                      out |-> parseProxyResourceURI(buildProxyResourceURI(n, str, t))]

\* parseProxyResourceURI of some URI as the client sent it
ParseRaw ==
    /\ applied = NotApplied
    /\ \E kind \in DOMAIN RawPrefixes, server \in RawServers, hex \in RawHex :
          applied' =
              [fn |-> "parseProxyResourceURI", built |-> FALSE,
               kind |-> kind, server |-> server, hex |-> hex,
               uri |-> RawPrefixes[kind] \o server \o <<"/">> \o hex,
               out |-> parseProxyResourceURI(RawPrefixes[kind] \o server \o <<"/">> \o hex)]

(***************************************************************************)
(* decodeProxyResponse. A body is empty, one JSON object, one JSON array,  *)
(* or lines of an event stream; the lines that matter start with "data:".  *)
(***************************************************************************)
rpcRespOf(id, result) == [JSONRPC |-> "2.0", ID |-> id, Result |-> result, Error |-> "nil"]

\* an object with no jsonrpc, result or error member ("{}")
BlankObject == [JSONRPC |-> "", ID |-> 0, Result |-> "nil", Error |-> "nil"]

\* a notification of the downstream: jsonrpc and method, no id
NotificationObject == rpcRespOf(0, "nil")

RespObjects == {rpcRespOf(id, r) : id \in 1 .. MaxRespID, r \in {"x", "y"}}

BodyObjects == RespObjects \cup {BlankObject, NotificationObject}

SeqsUpTo(S, n) == UNION {[1 .. k -> S] : k \in 0 .. n}

\* one line of an event stream: "data: [DONE]", "data:", "event: message",
\* "data: {...}" or "data: [{...},{...}]"
Lines ==
    {[data |-> d, items |-> <<>>] : d \in {"done", "empty", "event"}}
    \cup {[data |-> "object", items |-> <<o>>] : o \in BodyObjects}
    \cup {[data |-> "array", items |-> <<rpcRespOf(i, "x"), rpcRespOf(j, "x")>>] :
             i, j \in 1 .. MaxRespID}

Bodies ==
    {[kind |-> "empty", items |-> <<>>, lines |-> <<>>]}
    \cup {[kind |-> "object", items |-> <<o>>, lines |-> <<>>] : o \in BodyObjects}
    \cup {[kind |-> "array", items |-> a, lines |-> <<>>] : a \in SeqsUpTo(BodyObjects, MaxFrames)}
    \cup {[kind |-> "sse", items |-> <<>>, lines |-> l] : l \in SeqsUpTo(Lines, MaxFrames) \ {<<>>}}

\* add: an object with none of jsonrpc, result, error is no candidate
RECURSIVE AddAll(_, _)
AddAll(candidates, objs) ==
    IF objs = <<>> THEN candidates
    ELSE LET v == Head(objs)
         IN  IF v.JSONRPC = "" /\ v.Result = "nil" /\ v.Error = "nil"
             THEN AddAll(candidates, Tail(objs))
             ELSE AddAll(Append(candidates, v), Tail(objs))

\* the loop over the lines of the body
RECURSIVE AddLines(_, _)
AddLines(candidates, lines) ==
    IF lines = <<>> THEN candidates
    ELSE LET line == Head(lines)
         IN  IF line.data \in {"event", "empty", "done"}
             THEN AddLines(candidates, Tail(lines))
             ELSE AddLines(AddAll(candidates, line.items), Tail(lines))

\* the candidates after the three passes: the body as one object, as an
\* array, line by line
Candidates(body) ==
    LET one == IF body.kind = "object" THEN AddAll(<<>>, body.items) ELSE <<>>
        arr == IF body.kind = "array" THEN AddAll(one, body.items) ELSE one
    IN  AddLines(arr, body.lines)

NoError == [msg |-> "", id |-> 0]

\* (the first candidate, whatever id is expected)
SelectFirst(candidates, expectedID) == [err |-> NoError, resp |-> candidates[1]]

\* the choice among the candidates
Select(candidates, expectedID) ==
    IF expectedID > 0
    THEN LET hits == {i \in DOMAIN candidates : candidates[i].ID = expectedID}
         IN  IF hits = {}
             THEN [err |-> [msg |-> "response id=%d not found", id |-> expectedID],
                   resp |-> BlankObject]
             ELSE [err |-> NoError,
                   resp |-> candidates[CHOOSE i \in hits : \A j \in hits : i <= j]]
    ELSE [err |-> NoError, resp |-> candidates[1]]

decodeProxyResponse(body, expectedID) ==
    IF body.kind = "empty"
    THEN [err |-> [msg |-> "empty response body", id |-> 0], resp |-> BlankObject]
    ELSE IF Candidates(body) = <<>>
    THEN [err |-> [msg |-> "unable to decode response: %s", id |-> 0], resp |-> BlankObject]
    ELSE Select(Candidates(body), expectedID)

\* decodeProxyResponse(raw, expectedID) for some body and expected id
Decode ==
    /\ applied = NotApplied
    /\ \E body \in Bodies, expectedID \in 0 .. MaxRespID :
          applied' = [fn |-> "decodeProxyResponse", body |-> body,
                      expectedID |-> expectedID,
                      out |-> decodeProxyResponse(body, expectedID)]

\* The first "data:" line of an event stream that parses as one object
\* (manager.go:520-532); a line holding an array does not.
RECURSIVE FirstDataObject(_)
FirstDataObject(lines) ==
    IF lines = <<>> THEN <<>>
    ELSE IF Head(lines).data = "object" THEN Head(lines).items
    ELSE FirstDataObject(Tail(lines))

\* decodeHTTPMCPResponse (manager.go:503-535), the decoder of the HTTP
\* check: the body as one object, else the first entry of a batch, else the
\* first data: line that parses. It is given no id to look for.
decodeHTTPMCPResponse(body) ==
    CASE body.kind = "empty" ->
            [err |-> [msg |-> "empty response body", id |-> 0], resp |-> BlankObject]
      [] body.kind = "object" /\ body.items[1] # BlankObject ->
            [err |-> NoError, resp |-> body.items[1]]
      [] body.kind = "array" /\ body.items # <<>> ->
            [err |-> NoError, resp |-> body.items[1]]
      [] body.kind = "sse" /\ FirstDataObject(body.lines) # <<>> ->
            [err |-> NoError, resp |-> FirstDataObject(body.lines)[1]]
      [] OTHER ->
            [err |-> [msg |-> "unable to decode MCP response: %s", id |-> 0],
             resp |-> BlankObject]

\* doCheckStreamableHTTP's send (manager.go:415-424) decodes the body that
\* answers its request number expectedID: 1 is initialize, 2 is tools/list.
DecodeHTTP ==
    /\ applied = NotApplied
    /\ \E body \in Bodies, expectedID \in 1 .. 2 :
          applied' = [fn |-> "decodeHTTPMCPResponse", body |-> body,
                      expectedID |-> expectedID,
                      out |-> decodeHTTPMCPResponse(body)]

\* runMCPStdio's cases tools/call, prompts/get and resources/read
\* (part_001:76-157) on one line: param is what the line carries as name
\* (uri for resources/read), routes are the keys of the route maps the loop
\* holds for the method, down is how the downstream call ends if it is made.
\* tools/call tests the name; the other two look the name up as it is.
runMCPStdioForward(method, param, routes, down) ==
    LET answer(code, msg, called) == [code |-> code, msg |-> msg, called |-> called]
    IN  IF param = "invalid"
        THEN answer(-32602, "invalid " \o method \o " params", FALSE)
        ELSE IF method = "tools/call" /\ param = ""
        THEN answer(-32602, "invalid tools/call params", FALSE)
        ELSE IF ~(param \in routes \/ Qualified(param))
        THEN answer(-32601, ItemWord(method) \o " not found", FALSE)
        ELSE IF down = "ok"
        THEN answer(0, "", TRUE)
        ELSE answer(-32000, down, down # "no_server")

\* one line of stdin that carries a forwarding method
StdioForward ==
    /\ applied = NotApplied
    /\ \E method \in ForwardMethods, param \in Params, routes \in SUBSET {"a__t", "plain"},
          down \in {"no_server", "error", "ok"} :
          applied' = [fn |-> "runMCPStdio", method |-> method, param |-> param,
                      routes |-> routes,
                      out |-> runMCPStdioForward(method, param, routes, down)]

\* normalizeServer (config.go:34-44) on a descriptor with its type and URL:
\* the three strings are trimmed, and a descriptor with a URL and no type
\* gets the type streamableHttp
normalizeDescriptor(srv) ==
    LET t == [srv EXCEPT !.Type = TrimSpace(srv.Type), !.URL = TrimSpace(srv.URL),
                         !.Command = TrimSpace(srv.Command)]
    IN  IF t.URL # "" /\ t.Type = "" THEN [t EXCEPT !.Type = "streamableHttp"] ELSE t

\* the test of forwardMCP (part_002:563) that sends a call to forwardHTTP
forwardMCPOverHTTP(srv) ==
    \/ srv.Type = "streamableHttp"
    \/ (srv.URL # "" /\ srv.Command = "")

TransportName(http) == IF http THEN "streamableHttp" ELSE "stdio"

\* a descriptor as decoded from a request body
DecodedServers ==
    [Type : {"", "stdio", "streamableHttp"}, URL : {"", "u"},
     Command : {"", "c", " new "}, Enabled : {TRUE}]

\* Store.AddServer / Store.Set keep the normalised descriptor; doCheck
\* (manager.go:214) and forwardMCP then choose the driver from what
\* Store.GetServer hands out
Register ==
    /\ applied = NotApplied
    /\ \E srv \in DecodedServers :
          LET stored == normalizeDescriptor(srv)
          IN  applied' = [fn |-> "AddServer", srv |-> srv, stored |-> stored,
                          check |-> TransportName(isStreamableHTTPServer(stored)),
                          forward |-> TransportName(forwardMCPOverHTTP(stored))]

\* a line of the child's stdout: a response, a notification, or a line that
\* is no JSON (a log message)
ChildLines ==
    {[json |-> TRUE, obj |-> o] : o \in RespObjects \cup {NotificationObject}}
        \cup {[json |-> TRUE, obj |-> [rpcRespOf(id, "nil") EXCEPT !.Error = "boom"]] :
                  id \in 1 .. MaxRespID}
        \cup {[json |-> FALSE, obj |-> BlankObject]}

\* (a reader that skips to the response whose id is the request's)
readRespById(stdout, k) ==
    LET at == {i \in DOMAIN stdout : stdout[i].json /\ stdout[i].obj.ID = k}
    IN  IF at = {} THEN [err |-> "EOF", resp |-> BlankObject]
        ELSE [err |-> "", resp |-> stdout[CHOOSE i \in at : \A j \in at : i <= j].obj]

\* readResp of forwardStdio (part_002:715-725) for the k-th request: the next
\* line of stdout, whatever it is; at the end of the output, EOF
readResp(stdout, k) ==
    IF k > Len(stdout) THEN [err |-> "EOF", resp |-> BlankObject]
    ELSE IF ~stdout[k].json THEN [err |-> "invalid character", resp |-> BlankObject]
    ELSE [err |-> "", resp |-> stdout[k].obj]

\* forwardStdio from the first request on (part_002:727-771), against a
\* child that writes the lines of stdout: initialize, one line read; the
\* notification and the real request, one line read; its result returned
forwardStdio(stdout, method) ==
    LET initResp == readResp(stdout, 1)
        callResp == readResp(stdout, 2)
        failed(e) == [err |-> e, result |-> "nil"]
    IN  IF initResp.err # "" THEN failed(initResp.err)
        ELSE IF initResp.resp.Error # "nil"
        THEN failed("initialize: " \o initResp.resp.Error)
        ELSE IF callResp.err # "" THEN failed(callResp.err)
        ELSE IF callResp.resp.Error # "nil"
        THEN failed(method \o ": " \o callResp.resp.Error)
        ELSE [err |-> "",
              result |-> IF callResp.resp.Result = "nil" THEN "{}" ELSE callResp.resp.Result]

\* one forwardStdio against a child and what it writes
ForwardStdioRead ==
    /\ applied = NotApplied
    /\ \E stdout \in SeqsUpTo(ChildLines, MaxChildLines), method \in {"tools/call"} :
          applied' = [fn |-> "forwardStdio", stdout |-> stdout, method |-> method,
                      out |-> forwardStdio(stdout, method)]

\* the function has returned
Return ==
    /\ applied # NotApplied
    /\ applied' = NotApplied

PureInit == applied = NotApplied

(***************************************************************************)
(* SpecRead: resources/list, resources/templates/list and resources/read   *)
(***************************************************************************)
ServerSlash == <<"a", "/", "b">>

ReadServers == {ServerA, ServerSlash}

\* the uri of each resource a downstream lists (one of them has none)
ResourceExports == (ServerA :> << <<"z">> >>) @@ (ServerSlash :> << <<"z">>, <<>> >>)

\* the uriTemplate of each resource template a downstream lists
TemplateExports == (ServerA :> << <<"a">> >>) @@ (ServerSlash :> << <<"a">> >>)

\* what the listing of one server comes to: the server is not enabled, the
\* forward or the parse of its answer fails, or it answers
Listings == {"disabled", "error", "ok"}

\* the inner loop of aggregateResources / aggregateResourceTemplates
RECURSIVE AppendURIs(_, _, _, _)
AppendURIs(serverName, uris, template, acc) ==
    IF uris = <<>> THEN acc
    ELSE LET uri == Head(uris)
             proxyURI == buildProxyResourceURI(serverName, uri, template)
             route == resourceRoute(serverName, uri, template)
         IN  IF uri = <<>> THEN AppendURIs(serverName, Tail(uris), template, acc)
             ELSE AppendURIs(serverName, Tail(uris), template,
                      [items  |-> Append(acc.items, [uri |-> proxyURI, from |-> route]),
                       routes |-> (proxyURI :> route) @@ acc.routes])

\* the outer loop of aggregateResources / aggregateResourceTemplates
RECURSIVE aggregateURIsFrom(_, _, _, _, _)
aggregateURIsFrom(order, how, exports, template, acc) ==
    IF order = <<>> THEN acc
    ELSE IF how[Head(order)] # "ok"
         THEN aggregateURIsFrom(Tail(order), how, exports, template, acc)
    ELSE aggregateURIsFrom(Tail(order), how, exports, template,
             AppendURIs(Head(order), exports[Head(order)], template, acc))

aggregateResources(order, how) ==
    aggregateURIsFrom(order, how, ResourceExports, FALSE, [items |-> <<>>, routes |-> <<>>])

aggregateResourceTemplates(order, how) ==
    aggregateURIsFrom(order, how, TemplateExports, TRUE, [items |-> <<>>, routes |-> <<>>])

\* (the route maps of the session are not looked at)
resolveByParseOnly(res, tpl, uri) == parseProxyResourceURI(uri)

\* resolveResourceRoute: Resources, then ResourceTemplates, then the parse
resolveResourceRoute(res, tpl, uri) ==
    IF uri \in DOMAIN res THEN [ok |-> TRUE, route |-> res[uri]]
    ELSE IF uri \in DOMAIN tpl THEN [ok |-> TRUE, route |-> tpl[uri]]
    ELSE parseProxyResourceURI(uri)

NoRead ==
    [uri |-> <<>>, code |-> 0, forwarded |-> FALSE, to |-> <<>>, sent |-> <<>>,
     done |-> FALSE]

\* the URIs a client reads: every proxy URI of a known or unknown server, in
\* both modes, the empty one, one of another scheme, one with bad hex
ReadURIs ==
    {buildProxyResourceURI(n, u, t) :
        n \in ReadServers \cup {<<"x">>}, u \in {<<"z">>, <<"a">>}, t \in BOOLEAN}
    \cup {<<>>, RawPrefixes.none \o <<"z">>, proxyResourcePrefix \o <<"a", "/", "z", "z">>}

\* resources/list
ResourcesList(order, how) ==
    LET r == aggregateResources(order, how)
    IN  /\ resourceRoutes' = r.routes
        /\ resources' = r.items
        /\ read' = NoRead
        /\ UNCHANGED templateRoutes

\* resources/templates/list
TemplatesList(order, how) ==
    LET r == aggregateResourceTemplates(order, how)
    IN  /\ templateRoutes' = r.routes
        /\ read' = NoRead
        /\ UNCHANGED <<resourceRoutes, resources>>

\* resources/read over HTTP (with a live session) or stdio, from the params
\* to the response; out is what the downstream does with the forwarded read
ResourcesRead(transport, uri, out) ==
    LET r == resolveResourceRoute(resourceRoutes, templateRoutes, uri)
        reply(code, fwd, to, sent) ==
            [uri |-> uri, code |-> code, forwarded |-> fwd, to |-> to, sent |-> sent,
             done |-> TRUE]
    IN  /\ read' = IF transport = "http" /\ uri = <<>>
                   THEN reply(-32602, FALSE, <<>>, <<>>)
                   ELSE IF ~r.ok THEN reply(-32601, FALSE, <<>>, <<>>)
                   ELSE IF r.route.ServerName \notin ReadServers
                        THEN reply(-32000, FALSE, <<>>, <<>>)
                   ELSE reply(IF out = "ok" THEN 0 ELSE -32000, TRUE,
                              r.route.ServerName, r.route.OriginalURI)
        /\ UNCHANGED <<resourceRoutes, templateRoutes, resources>>

ReadInit ==
    /\ resourceRoutes = <<>>
    /\ templateRoutes = <<>>
    /\ resources = <<>>
    /\ read = NoRead

(***************************************************************************)
(* SpecSession: one session with a downstream, step by step.               *)
(*   "check"     Manager.doCheck on a stdio server, called by Check        *)
(*   "checkHTTP" Manager.doCheckStreamableHTTP, called by Check            *)
(*   "forward"   forwardStdio                                              *)
(***************************************************************************)
SessKinds == {"check", "checkHTTP", "forward"}

IsCheck(kind) == kind \in {"check", "checkHTTP"}

\* the ways the tools/list step of a check fails
ToolsFaults == {"send", "read", "unparsable", "protocol", "badlist"}

\* the steps up to the downstream's answer to initialize, in order
InitSteps(kind) ==
    CASE kind = "check"     -> <<"sendInit", "readInit", "parseInit", "initResp", "notify">>
      [] kind = "checkHTTP" -> <<"sendInit", "initResp", "notify">>
      [] kind = "forward"   -> <<"sendInit", "readInit", "initResp", "notify">>

\* The error a driver returns when it has nothing to start or to call.
\*   doCheck 217-221, doCheckStreamableHTTP 376-380, forwardStdio 672-674
MissingError(kind) ==
    CASE kind = "check"     -> "missing command for stdio server"
      [] kind = "checkHTTP" -> "missing url for streamableHttp server"
      [] kind = "forward"   -> "missing command"

\* The error each failing step of the initialize exchange returns.
\*   doCheck 278-304; doCheckStreamableHTTP 441-452 (its one request fails
\*   as a whole: transport, HTTP status, decoding); forwardStdio 739-748
InitError(kind, pc) ==
    CASE pc = "initResp"    -> "initialize: boom"
      [] kind = "checkHTTP" -> "initialize request: http status 500"
      [] kind = "forward"   -> IF pc = "sendInit" THEN "broken pipe" ELSE "EOF"
      [] pc = "sendInit"    -> "send initialize: broken pipe"
      [] pc = "readInit"    -> "read initialize response: EOF"
      [] pc = "parseInit"   -> "parse initialize response: invalid character"

\* The line a check logs, at level error, for that failure.
InitLogMessage(kind, pc) ==
    CASE pc = "initResp"    -> "Initialize error: boom"
      [] kind = "checkHTTP" -> "Initialize request failed: http status 500"
      [] pc = "sendInit"    -> "Failed to send initialize: broken pipe"
      [] pc = "readInit"    -> "Failed to read initialize response: EOF"
      [] pc = "parseInit"   -> "Invalid initialize response: invalid character"

\* the steps of forwardStdio after initialize
CallSteps == <<"sendCall", "readCall", "callResp">>

\* the step after pc in steps, or last when pc is the last one
After(steps, pc, last) ==
    LET i == CHOOSE k \in DOMAIN steps : steps[k] = pc
    IN  IF i = Len(steps) THEN last ELSE steps[i + 1]

\* what a return before the end does to the child. doCheck: cancel() (or
\* the deferred cancel) makes the context kill the process, nobody waits.
\* forwardStdio: the deferred function kills and waits.
ChildAtEarlyReturn(kind, c) ==
    IF c # "running" THEN c
    ELSE IF kind = "forward" THEN "reaped" ELSE "killed"

\* the log line of each tools/list failure
ToolsFaultMessage(kind, f) ==
    CASE f = "send" -> IF kind = "check" THEN "Failed to send tools/list"
                       ELSE "tools/list request failed"
      [] f = "read" -> IF kind = "check" THEN "Failed to read tools/list response"
                       ELSE "tools/list request failed"
      [] f = "unparsable" -> IF kind = "check" THEN "Invalid tools/list response"
                             ELSE "tools/list request failed"
      [] f = "protocol" -> "tools/list error"
      [] f = "badlist" -> "Failed to parse tools"

\* (a tools/list failure fails the check)
ToolsFaultIsFatal(f) == "tools/list: " \o f

\* what doCheck returns when tools/list failed in the way f: nil
ToolsFaultError(f) == ""

\* the session starts; Check has marked the record
SessBegin(kind, method) ==
    /\ sessPc \in {"idle", "returned"}
    /\ (kind = "forward") = (method # "")
    /\ sessKind' = kind
    /\ sessMethod' = method
    /\ sessPc' = "config"
    /\ child' = "none"
    /\ sessLogs' = <<>>
    /\ sessErr' = ""
    /\ sessLastCheck' = FALSE
    /\ sessStatus' = IF IsCheck(kind) THEN StatusChecking ELSE StatusUnchecked
    /\ sessError' = ""
    /\ sessTools' = <<>>
    /\ fault' = ""

\* The first test of every driver: is there a command (a URL) at all?
ConfigStep(ok) ==
    /\ sessPc = "config"
    /\ IF ok
       THEN /\ sessPc' = IF sessKind = "checkHTTP" THEN "sendInit" ELSE "start"
            /\ sessErr' = sessErr
            /\ sessLogs' = IF sessKind = "checkHTTP"
                           THEN <<LogEntry("info", "Connecting via streamable HTTP")>>
                           ELSE sessLogs
       ELSE /\ sessPc' = "return"
            /\ sessErr' = MissingError(sessKind)
            /\ sessLogs' = IF IsCheck(sessKind)
                           THEN Append(sessLogs, LogEntry("error", MissingError(sessKind)))
                           ELSE sessLogs
    /\ UNCHANGED <<sessKind, sessMethod, child, sessStatus, sessError, sessTools, fault,
                   sessLastCheck>>

\* cmd.Start()
SpawnChild(ok) ==
    /\ sessPc = "start"
    /\ IF ok
       THEN /\ child' = "running"
            /\ sessPc' = "sendInit"
            /\ sessErr' = sessErr
            /\ sessLogs' = IF sessKind = "check"
                           THEN Append(sessLogs, LogEntry("info", "Started with PID"))
                           ELSE sessLogs
       ELSE /\ child' = "none"
            /\ sessPc' = "return"
            /\ sessErr' = IF sessKind = "check" THEN "start: not found" ELSE "not found"
            /\ sessLogs' = IF sessKind = "check"
                           THEN Append(sessLogs, LogEntry("error", "Failed to start: not found"))
                           ELSE sessLogs
    /\ UNCHANGED <<sessKind, sessMethod, sessStatus, sessError, sessTools, fault, sessLastCheck>>

\* one step of the initialize exchange; a failure returns the error
InitializeStep(ok) ==
    /\ sessPc \in {"sendInit", "readInit", "parseInit", "initResp"}
    /\ IF ok
       THEN /\ sessPc' = After(InitSteps(sessKind), sessPc, "notify")
            /\ sessLogs' = IF sessPc = "initResp" /\ IsCheck(sessKind)
                           THEN Append(sessLogs, LogEntry("info", "MCP initialized"))
                           ELSE sessLogs
            /\ UNCHANGED <<child, sessErr>>
       ELSE /\ sessPc' = "return"
            /\ sessErr' = InitError(sessKind, sessPc)
            /\ sessLogs' = IF IsCheck(sessKind)
                           THEN Append(sessLogs,
                                    LogEntry("error", InitLogMessage(sessKind, sessPc)))
                           ELSE sessLogs
            /\ child' = ChildAtEarlyReturn(sessKind, child)
    /\ UNCHANGED <<sessKind, sessMethod, sessStatus, sessError, sessTools, fault, sessLastCheck>>

\* notifications/initialized: a failure is logged by the HTTP check and
\* ignored by the others
NotifyStep(ok) ==
    /\ sessPc = "notify"
    /\ sessPc' = IF sessKind = "forward" THEN "sendCall" ELSE "sendTools"
    /\ sessLogs' = IF ~ok /\ sessKind = "checkHTTP"
                   THEN Append(sessLogs,
                            LogEntry("warn", "Failed to send initialized notification"))
                   ELSE sessLogs
    /\ UNCHANGED <<sessKind, sessMethod, child, sessErr, sessStatus, sessError,
                   sessTools, fault, sessLastCheck>>

\* the tools/list step of a check: f is how it fails, "" when it does not
ToolsStep(f) ==
    /\ sessPc = "sendTools"
    /\ IsCheck(sessKind)
    /\ fault' = f
    /\ IF f = ""
       THEN /\ sessTools' = <<"ping">>
            /\ sessLogs' = Append(sessLogs, LogEntry("info", "Discovered 1 tools"))
            /\ sessPc' = "finish"
            /\ UNCHANGED <<child, sessErr>>
       ELSE /\ sessTools' = sessTools
            /\ sessLogs' = Append(sessLogs, LogEntry("warn", ToolsFaultMessage(sessKind, f)))
            /\ sessErr' = ToolsFaultError(f)
            /\ IF f \in {"send", "read"} \/ (sessKind = "checkHTTP" /\ f = "unparsable")
               THEN /\ sessPc' = "return"
                    /\ child' = ChildAtEarlyReturn(sessKind, child)
               ELSE /\ sessPc' = "finish"
                    /\ child' = child
    /\ UNCHANGED <<sessKind, sessMethod, sessStatus, sessError, sessLastCheck>>

\* one step of the forwarded call; a failure returns the error
CallStep(ok) ==
    /\ sessPc \in {"sendCall", "readCall", "callResp"}
    /\ IF ok
       THEN /\ sessPc' = After(CallSteps, sessPc, "finish")
            /\ UNCHANGED <<child, sessErr>>
       ELSE /\ sessPc' = "return"
            /\ sessErr' = IF sessPc = "callResp" THEN sessMethod \o ": boom" ELSE "call"
            /\ child' = ChildAtEarlyReturn(sessKind, child)
    /\ UNCHANGED <<sessKind, sessMethod, sessLogs, sessStatus, sessError, sessTools, fault,
                   sessLastCheck>>

\* the end of the function: doCheck cancels and waits; forwardStdio's
\* deferred function kills and waits
SessFinish ==
    /\ sessPc = "finish"
    /\ child' = IF child = "running" THEN "reaped" ELSE child
    /\ sessLogs' = IF IsCheck(sessKind)
                   THEN Append(sessLogs, LogEntry("info", "Check completed"))
                   ELSE sessLogs
    /\ sessPc' = "return"
    /\ UNCHANGED <<sessKind, sessMethod, sessErr, sessStatus, sessError, sessTools, fault,
                   sessLastCheck>>

\* the function has returned; Check sets the final status
SessReturn ==
    /\ sessPc = "return"
    /\ sessPc' = "returned"
    /\ sessStatus' = IF IsCheck(sessKind) THEN FinalStatus(sessErr) ELSE sessStatus
    /\ sessError' = IF IsCheck(sessKind) THEN sessErr ELSE sessError
    /\ sessLastCheck' = (IsCheck(sessKind) \/ sessLastCheck)
    /\ UNCHANGED <<sessKind, sessMethod, child, sessLogs, sessErr, sessTools, fault>>

SessInit ==
    /\ sessKind = "forward"
    /\ sessMethod = ""
    /\ sessPc = "idle"
    /\ child = "none"
    /\ sessLogs = <<>>
    /\ sessErr = ""
    /\ sessStatus = StatusUnchecked
    /\ sessError = ""
    /\ sessTools = <<>>
    /\ fault = ""
    /\ sessLastCheck = FALSE

(***************************************************************************)
(* SpecStdio: runMCPStdio, the loop over the lines of stdin. What a list   *)
(* or call answers is in SpecRoute and SpecRead; here it is a code.        *)
(***************************************************************************)
StdioMethods ==
    {"initialize", "notifications/initialized", "notifications/cancelled",
     "tools/list", "tools/call", "bogus/method"}

\* a line of stdin: blank, not JSON, or a JSON object whose id member is
\* absent, an integer (0 or 1) or a string (the string "1")
StdinLines ==
    {[text |-> t, idForm |-> "absent", id |-> 0, method |-> ""] : t \in {"blank", "garbage"}}
    \cup {[text |-> "json", idForm |-> "absent", id |-> 0, method |-> m] : m \in StdioMethods}
    \cup {[text |-> "json", idForm |-> "int", id |-> i, method |-> m] :
             i \in {0, 1}, m \in StdioMethods}
    \cup {[text |-> "json", idForm |-> "string", id |-> 1, method |-> m] : m \in StdioMethods}

\* json.Unmarshal into rpcReq: ID is an int, so a string id is an error and
\* an absent id reads as 0
DecodeReq(line) ==
    IF line.text = "garbage" \/ line.idForm = "string"
    THEN [ok |-> FALSE, ID |-> 0, Method |-> ""]
    ELSE [ok |-> TRUE, ID |-> IF line.idForm = "int" THEN line.id ELSE 0,
          Method |-> line.method]

NoStdioReq == [ok |-> FALSE, ID |-> 0, Method |-> ""]

\* json.Marshal of rpcResp: ID has omitempty, so 0 is left out
MarshalResp(ID, code, from) ==
    [hasID |-> ID # 0, id |-> ID, code |-> code, from |-> from]

\* the codes each method may answer with (0 is a result)
AnswerCodes(method) ==
    CASE method \in {"initialize", "tools/list"} -> {0}
      [] method = "tools/call" -> {-32602, -32601, -32000, 0}
      [] OTHER -> {-32601}

\* in.Scan() and json.Unmarshal: a blank line is skipped
ReadLine(line) ==
    /\ stdioPc = "scan"
    /\ Len(stdinLines) < MaxLines
    /\ stdinLines' = Append(stdinLines, line)
    /\ IF line.text = "blank"
       THEN UNCHANGED <<stdioPc, stdioReq>>
       ELSE stdioPc' = "handle" /\ stdioReq' = DecodeReq(line)
    /\ UNCHANGED stdoutLines

\* the parse error answer, or the switch on req.Method up to the write
Answer(code) ==
    /\ stdioPc = "handle"
    /\ IF ~stdioReq.ok
       THEN /\ code = -32700
            /\ stdoutLines' = Append(stdoutLines, MarshalResp(0, code, Len(stdinLines)))
       ELSE IF stdioReq.Method = "notifications/initialized"
       THEN /\ code = 0
            /\ stdoutLines' = stdoutLines
       ELSE /\ code \in AnswerCodes(stdioReq.Method)
            /\ stdoutLines' =
                   Append(stdoutLines, MarshalResp(stdioReq.ID, code, Len(stdinLines)))
    /\ stdioPc' = "scan"
    /\ stdioReq' = NoStdioReq
    /\ UNCHANGED stdinLines

\* in.Scan() returns false: end of input
EndOfInput ==
    /\ stdioPc = "scan"
    /\ stdioPc' = "closed"
    /\ UNCHANGED <<stdinLines, stdioReq, stdoutLines>>

StdioInit ==
    /\ stdioPc = "scan"
    /\ stdinLines = <<>>
    /\ stdioReq = NoStdioReq
    /\ stdoutLines = <<>>

(***************************************************************************)
(* SpecLock: the locks of the Health manager (Manager.mu) and the Registry *)
(* (Store.mu) around one ServerInfo. Four tasks run side by side: Check of *)
(* a stdio server, the stderr goroutine doCheck starts, one GetInfo, and   *)
(* the DELETE handler. A critical section is two steps (acquire; act and   *)
(* release) and so is an access made under no lock (begin; end), so that   *)
(* what overlaps in the program overlaps here.                             *)
(***************************************************************************)
Tasks == {"check", "stderr", "reader", "delete"}

NoLock == [w |-> "none", r |-> {}]

\* sync.RWMutex: Lock waits for the writer and the readers, RLock for the writer.
CanAcquire(l, mode) ==
    IF mode = "w" THEN l.w = "none" /\ l.r = {} ELSE l.w = "none"

Acquired(l, mode, t) ==
    IF mode = "w" THEN [l EXCEPT !.w = t] ELSE [l EXCEPT !.r = @ \cup {t}]

Released(l, t) ==
    [w |-> IF l.w = t THEN "none" ELSE l.w, r |-> l.r \ {t}]

\* The statements of Check and doCheck that touch the record, in program order.
CheckOrder ==
    <<"GetServer", "getOrCreateInfo", "mark", "logChecking", "logStarted", "spawn",
      "meta", "logInitialized", "tools", "logDiscovered", "kill", "wait",
      "duration", "logCompleted", "finish", "done">>

RECURSIVE PositionIn(_, _)
PositionIn(seq, x) == IF Head(seq) = x THEN 1 ELSE 1 + PositionIn(Tail(seq), x)

AfterInCheck(pc) == CheckOrder[PositionIn(CheckOrder, pc) + 1]

\* The lock a step takes first, and how: <<lock, mode>>.
\*   Store.GetServer: s.mu.RLock         Store.RemoveServer: s.mu.Lock
\*   getOrCreateInfo, Check 178 and 197, doCheck 347, RemoveServer: m.mu.Lock
\*   GetInfo 586 and 603: m.mu.RLock
LockOf(pc) ==
    CASE pc \in {"GetServer", "gocStore", "rdStore"} -> <<"store", "r">>
      [] pc = "storeRemove" -> <<"store", "w">>
      [] pc \in {"getOrCreateInfo", "mark", "tools", "finish", "mgrRemove"} -> <<"mu", "w">>
      [] pc \in {"lookup", "copy"} -> <<"mu", "r">>
      [] OTHER -> <<"none", "">>

\* The fields of the ServerInfo a step writes or reads.
\*   addLog 159-162: Logs       doCheck 309-311: handshake metadata
\*   doCheck 359: CheckDuration Check 179-181: Status, Error, Config
\*   doCheck 348: Tools         Check 198-204: LastCheck, Status, Error
\*   GetInfo 606-610: every field (cp := *info and the two copies)
AllFields == {"Status", "Error", "Config", "Logs", "Tools", "LastCheck", "meta", "CheckDuration"}

NoAccess == [mode |-> "none", fields |-> {}]

AccessOf(pc) ==
    CASE pc \in {"logChecking", "logStarted", "logInitialized", "logDiscovered",
                 "logCompleted", "logStderr"} -> [mode |-> "write", fields |-> {"Logs"}]
      [] pc = "meta" -> [mode |-> "write", fields |-> {"meta"}]
      [] pc = "duration" -> [mode |-> "write", fields |-> {"CheckDuration"}]
      [] pc = "mark" -> [mode |-> "write", fields |-> {"Status", "Error", "Config"}]
      [] pc = "tools" -> [mode |-> "write", fields |-> {"Tools"}]
      [] pc = "finish" -> [mode |-> "write", fields |-> {"LastCheck", "Status", "Error"}]
      [] pc = "copy" -> [mode |-> "read", fields |-> AllFields]
      [] OTHER -> NoAccess

IdleTask(pc) == [pc |-> pc, in |-> FALSE, info |-> 0, ok |-> FALSE]

TheLock(name) == IF name = "mu" THEN lockMu ELSE lockStore

\* A task takes the lock its next step starts with.
Acquire(t) ==
    /\ ~task[t].in
    /\ LockOf(task[t].pc)[1] # "none"
    /\ LET need == LockOf(task[t].pc)
       IN  /\ CanAcquire(TheLock(need[1]), need[2])
           /\ IF need[1] = "mu"
              THEN lockMu' = Acquired(lockMu, need[2], t) /\ UNCHANGED lockStore
              ELSE lockStore' = Acquired(lockStore, need[2], t) /\ UNCHANGED lockMu
    /\ task' = [task EXCEPT ![t].in = TRUE]
    /\ UNCHANGED <<lifeReg, lifeServers, lifeRecs, stderrLines, lifeHist>>

\* A statement that touches the record under no lock starts (addLog, and the
\* assignments of doCheck at lines 309-311 and 359).
PlainBegin(t) ==
    /\ ~task[t].in
    /\ LockOf(task[t].pc)[1] = "none"
    /\ AccessOf(task[t].pc) # NoAccess
    /\ task' = [task EXCEPT ![t].in = TRUE]
    /\ UNCHANGED <<lockMu, lockStore, lifeReg, lifeServers, lifeRecs, stderrLines, lifeHist>>

\* ... and ends. The stderr goroutine goes back to scanner.Scan.
PlainEnd(t) ==
    /\ task[t].in
    /\ LockOf(task[t].pc)[1] = "none"
    /\ AccessOf(task[t].pc) # NoAccess
    /\ task' = [task EXCEPT ![t].in = FALSE,
                            ![t].pc = IF t = "stderr" THEN "scan" ELSE AfterInCheck(@)]
    /\ lifeRecs' = IF "Logs" \in AccessOf(task[t].pc).fields
                   THEN [lifeRecs EXCEPT ![task[t].info] = @ + 1]
                   ELSE lifeRecs
    /\ UNCHANGED <<lockMu, lockStore, lifeReg, lifeServers, stderrLines, lifeHist>>

\* Store.GetServer (config.go:137-146) returns: from Check 167, from
\* getOrCreateInfo 137 (with m.mu still held) and from GetInfo 590.
StoreGetServerReturn(t) ==
    /\ task[t].in
    /\ task[t].pc \in {"GetServer", "gocStore", "rdStore"}
    /\ lockStore' = Released(lockStore, t)
    /\ task' = [task EXCEPT
                  ![t].ok = lifeReg,
                  ![t].in = (task[t].pc = "gocStore"),
                  ![t].pc = CASE @ = "GetServer" ->
                                   IF lifeReg THEN "getOrCreateInfo" ELSE "done"
                              [] @ = "gocStore" -> "gocCreate"
                              [] OTHER -> "done"]
    /\ lifeHist' = IF t = "reader" THEN [lifeHist EXCEPT !.found = lifeReg] ELSE lifeHist
    /\ UNCHANGED <<lockMu, lifeReg, lifeServers, lifeRecs, stderrLines>>

\* getOrCreateInfo 133-137: the record is there (return it, the deferred
\* Unlock runs), or the Registry is asked while m.mu stays locked.
GetOrCreateLookup(t) ==
    /\ task[t].in
    /\ task[t].pc = "getOrCreateInfo"
    /\ IF lifeServers # 0
       THEN /\ task' = [task EXCEPT ![t].info = lifeServers, ![t].in = FALSE, ![t].pc = "mark"]
            /\ lockMu' = Released(lockMu, t)
       ELSE /\ task' = [task EXCEPT ![t].in = FALSE, ![t].pc = "gocStore"]
            /\ UNCHANGED lockMu
    /\ UNCHANGED <<lockStore, lifeReg, lifeServers, lifeRecs, stderrLines, lifeHist>>

\* getOrCreateInfo 138-150: nil if the Registry has no such name, else a new
\* record goes into m.servers; the deferred Unlock runs. Check 173-175
\* returns "not found" on nil.
GetOrCreateReturn(t) ==
    /\ task[t].in
    /\ task[t].pc = "gocCreate"
    /\ lockMu' = Released(lockMu, t)
    /\ IF task[t].ok
       THEN /\ lifeRecs' = Append(lifeRecs, 0)
            /\ lifeServers' = Len(lifeRecs) + 1
            /\ task' = [task EXCEPT ![t].info = Len(lifeRecs) + 1, ![t].in = FALSE,
                                    ![t].pc = "mark"]
       ELSE /\ task' = [task EXCEPT ![t].in = FALSE, ![t].pc = "done"]
            /\ UNCHANGED <<lifeRecs, lifeServers>>
    /\ UNCHANGED <<lockStore, lifeReg, stderrLines, lifeHist>>

\* The end of a critical section of Check or doCheck that writes the record
\* (Check 179-182, doCheck 348-349, Check 198-206).
LockedWriteEnd(t) ==
    /\ task[t].in
    /\ task[t].pc \in {"mark", "tools", "finish"}
    /\ lockMu' = Released(lockMu, t)
    /\ task' = [task EXCEPT ![t].in = FALSE, ![t].pc = AfterInCheck(@)]
    /\ UNCHANGED <<lockStore, lifeReg, lifeServers, lifeRecs, stderrLines, lifeHist>>

\* doCheck 264-272: the goroutine that copies the child's stderr to the log.
SpawnStderr ==
    /\ task["check"].pc = "spawn"
    /\ task' = [task EXCEPT !["check"].pc = AfterInCheck(@),
                            !["stderr"] = [IdleTask("scan") EXCEPT !.info = task["check"].info]]
    /\ UNCHANGED <<lockMu, lockStore, lifeReg, lifeServers, lifeRecs, stderrLines, lifeHist>>

\* scanner.Scan returns a line of the child's stderr: addLog is next.
StderrLine ==
    /\ task["stderr"].pc = "scan"
    /\ stderrLines < MaxStderrLines
    /\ stderrLines' = stderrLines + 1
    /\ task' = [task EXCEPT !["stderr"].pc = "logStderr"]
    /\ UNCHANGED <<lockMu, lockStore, lifeReg, lifeServers, lifeRecs, lifeHist>>

\* doCheck 355-356: cancel() kills the child and cmd.Wait closes its pipes.
KillChild ==
    /\ task["check"].pc = "kill"
    /\ task' = [task EXCEPT !["check"].pc = AfterInCheck(@)]
    /\ UNCHANGED <<lockMu, lockStore, lifeReg, lifeServers, lifeRecs, stderrLines, lifeHist>>

\* scanner.Scan returns false (the pipe is closed): close(stderrDone).
StderrDone ==
    /\ task["stderr"].pc = "scan"
    /\ task["check"].pc = "wait"
    /\ task' = [task EXCEPT !["stderr"].pc = "closed"]
    /\ UNCHANGED <<lockMu, lockStore, lifeReg, lifeServers, lifeRecs, stderrLines, lifeHist>>

\* doCheck 357: <-stderrDone.
AwaitStderr ==
    /\ task["check"].pc = "wait"
    /\ task["stderr"].pc = "closed"
    /\ task' = [task EXCEPT !["check"].pc = AfterInCheck(@)]
    /\ UNCHANGED <<lockMu, lockStore, lifeReg, lifeServers, lifeRecs, stderrLines, lifeHist>>

\* GetInfo 586-589: the lookup in m.servers, under the shared lock.
GetInfoLookup ==
    /\ task["reader"].in
    /\ task["reader"].pc = "lookup"
    /\ lockMu' = Released(lockMu, "reader")
    /\ task' = [task EXCEPT !["reader"].in = FALSE,
                            !["reader"].info = lifeServers,
                            !["reader"].pc = IF lifeServers # 0 THEN "copy" ELSE "rdStore"]
    /\ lifeHist' = [lifeHist EXCEPT !.late = task["delete"].pc = "done"
                                             /\ task["check"].pc = "done"]
    /\ UNCHANGED <<lockStore, lifeReg, lifeServers, lifeRecs, stderrLines>>

\* GetInfo 603-611: the copy of the record, under the shared lock.
GetInfoCopy ==
    /\ task["reader"].in
    /\ task["reader"].pc = "copy"
    /\ lockMu' = Released(lockMu, "reader")
    /\ task' = [task EXCEPT !["reader"].in = FALSE, !["reader"].pc = "done"]
    /\ lifeHist' = [lifeHist EXCEPT !.found = TRUE]
    /\ UNCHANGED <<lockStore, lifeReg, lifeServers, lifeRecs, stderrLines>>

\* Manager.RemoveServer 579-583, called by the DELETE handler (part_000:166).
MgrRemoveServer ==
    /\ task["delete"].in
    /\ task["delete"].pc = "mgrRemove"
    /\ lifeServers' = 0
    /\ lockMu' = Released(lockMu, "delete")
    /\ task' = [task EXCEPT !["delete"].in = FALSE, !["delete"].pc = "storeRemove"]
    /\ UNCHANGED <<lockStore, lifeReg, lifeRecs, stderrLines, lifeHist>>

\* Store.RemoveServer (config.go:130-135), called next (part_000:167).
StoreRemoveServer ==
    /\ task["delete"].in
    /\ task["delete"].pc = "storeRemove"
    /\ lifeReg' = FALSE
    /\ lockStore' = Released(lockStore, "delete")
    /\ task' = [task EXCEPT !["delete"].in = FALSE, !["delete"].pc = "done"]
    /\ UNCHANGED <<lockMu, lifeServers, lifeRecs, stderrLines, lifeHist>>

\* A second Check of the name begins once the first has returned (the
\* health loop, or POST /api/servers/{name}/check).
CheckAgain ==
    /\ task["check"].pc = "done"
    /\ task["stderr"].pc \in {"off", "closed"}
    /\ lifeHist.rounds < MaxRounds
    /\ task' = [task EXCEPT !["check"] = IdleTask("GetServer"),
                            !["stderr"] = IdleTask("off")]
    /\ lifeHist' = [lifeHist EXCEPT !.rounds = @ + 1]
    /\ UNCHANGED <<lockMu, lockStore, lifeReg, lifeServers, lifeRecs, stderrLines>>

LockInit ==
    /\ lockMu = NoLock
    /\ lockStore = NoLock
    /\ task = [t \in Tasks |->
                 IdleTask(CASE t = "check" -> "GetServer"
                            [] t = "stderr" -> "off"
                            [] t = "reader" -> "lookup"
                            [] OTHER -> "mgrRemove")]
    /\ lifeReg = TRUE
    /\ lifeServers = 0
    /\ lifeRecs = <<>>
    /\ stderrLines = 0
    /\ lifeHist = [found |-> FALSE, late |-> FALSE, rounds |-> 1]

(***************************************************************************)
(* SpecWire: what one downstream session puts on the wire and when, for    *)
(* the four drivers: forwardHTTP and forwardStdio (under forwardMCP),      *)
(* doCheck and doCheckStreamableHTTP (under Check). Time is in seconds;    *)
(* the downstream answers an exchange after a delay, or never.             *)
(***************************************************************************)
checkTimeout == 30

proxyTimeout == 30

WireKinds == {"forwardHTTP", "forwardStdio", "doCheck", "doCheckStreamableHTTP"}

IsForward(kind) == kind \in {"forwardHTTP", "forwardStdio"}

IsHTTP(kind) == kind \in {"forwardHTTP", "doCheckStreamableHTTP"}

\* the downstream never answers: a delay beyond every deadline
Silent == checkTimeout + proxyTimeout

Delays == {0, checkTimeout - 1, Silent}

\* result, JSON-RPC error, or something that is no answer (a status >= 400,
\* a body or line that does not parse)
Replies == {"result", "error", "garbage"}

\* the session id a downstream hands out in its MCP-Session-Id header
IssuedSid == "s1"

\* The time an exchange may still take at clock seconds into the session.
\*   forwardMCP 561: context.WithTimeout(proxyTimeout) around the session;
\*     forwardHTTP's client has Timeout proxyTimeout too, the lesser counts
\*   doCheck 223: context.WithTimeout(checkTimeout) around the session
\*   doCheckStreamableHTTP 384: http.Client{Timeout: checkTimeout}, which
\*     bounds each request on its own
Budget(kind, clock) ==
    CASE kind = "doCheckStreamableHTTP" -> checkTimeout
      [] kind = "forwardHTTP" ->
            IF proxyTimeout - clock < proxyTimeout THEN proxyTimeout - clock ELSE proxyTimeout
      [] kind = "forwardStdio" -> proxyTimeout - clock
      [] OTHER -> checkTimeout - clock

\* An exchange that starts at clock and is answered after d seconds.
Exchanged(kind, clock, d) ==
    LET b == Budget(kind, clock)
    IN  IF d < b
        THEN [arrived |-> TRUE, clock |-> clock + d]
        ELSE [arrived |-> FALSE, clock |-> clock + b]

Event(dir, verb, method, id, sid, reply) ==
    [dir |-> dir, verb |-> verb, method |-> method, id |-> id, sid |-> sid, reply |-> reply]

\* The request a driver sends. Only forwardHTTP sets the MCP-Session-Id
\* header (part_002:588-590); doCheckStreamableHTTP's send sets Content-Type
\* and Accept alone (manager.go:396-397).
Request(kind, method, id, sid) ==
    Event("out", IF IsHTTP(kind) THEN "POST" ELSE "WRITE", method, id,
          IF kind = "forwardHTTP" THEN sid ELSE "", "")

Response(method, reply, hdr) ==
    Event("in", "", method, 0, IF hdr THEN IssuedSid ELSE "", reply)

\* forwardHTTP 596-598: the header of a response becomes the session id.
SidAfter(kind, sid, arrived, hdr) ==
    IF kind = "forwardHTTP" /\ arrived /\ hdr THEN IssuedSid ELSE sid

\* What happened to an exchange: its answer, or "timeout".
Outcome(x, reply) == IF x.arrived THEN reply ELSE "timeout"

\* The error a failed initialize exchange returns.
\*   forwardHTTP 640-645   forwardStdio 743-748
\*   doCheck 286-304       doCheckStreamableHTTP 442-452
InitFailure(kind, outcome) ==
    IF outcome = "error" THEN "initialize: boom"
    ELSE CASE kind = "forwardStdio" -> outcome
           [] kind = "doCheck" ->
                 IF outcome = "timeout" THEN "read initialize response: timeout"
                 ELSE "parse initialize response: garbage"
           [] OTHER -> "initialize request: " \o outcome

\* (a driver that goes on to the real request whatever initialize answered)
AfterInitializeAlways(outcome) == "notify"

\* Where the driver goes after the initialize exchange.
AfterInitialize(outcome) == IF outcome = "result" THEN "notify" ELSE "close"

\* The error a failed real request returns: the forwards return it, the
\* checks log a warning and return nil.
CallFailure(kind, method, outcome) ==
    IF ~IsForward(kind) THEN ""
    ELSE IF outcome = "error" THEN method \o ": boom"
    ELSE outcome

\* forwardMCP / Check calls the driver.
WireBegin(kind, method) ==
    /\ wPc \in {"idle", "returned"}
    /\ IF IsForward(kind) THEN method \in ForwardMethods ELSE method = "tools/list"
    /\ wKind' = kind
    /\ wMethod' = method
    /\ wPc' = "init"
    /\ wLog' = <<>>
    /\ wSid' = ""
    /\ wClock' = 0
    /\ wErr' = ""

\* initialize, id 1, and its answer
WireInitialize(d, reply, hdr) ==
    /\ wPc = "init"
    /\ hdr => IsHTTP(wKind)
    /\ LET x   == Exchanged(wKind, wClock, d)
           out == Outcome(x, reply)
       IN  /\ wLog' = wLog \o <<Request(wKind, "initialize", 1, wSid)>>
                        \o (IF x.arrived THEN <<Response("initialize", reply, hdr)>> ELSE <<>>)
           /\ wSid' = SidAfter(wKind, wSid, x.arrived, hdr)
           /\ wClock' = x.clock
           /\ wPc' = AfterInitialize(out)
           /\ wErr' = IF out = "result" THEN "" ELSE InitFailure(wKind, out)
    /\ UNCHANGED <<wKind, wMethod>>

\* notifications/initialized: over HTTP a POST whose response is awaited and
\* whose failure is passed over; over stdio a line written, nothing read
WireNotify(d, hdr) ==
    /\ wPc = "notify"
    /\ hdr => IsHTTP(wKind)
    /\ IsHTTP(wKind) \/ d = 0
    /\ LET x == IF IsHTTP(wKind) THEN Exchanged(wKind, wClock, d)
                ELSE [arrived |-> FALSE, clock |-> wClock]
       IN  /\ wLog' = wLog \o <<Request(wKind, "notifications/initialized", 0, wSid)>>
                        \o (IF x.arrived
                            THEN <<Response("notifications/initialized", "result", hdr)>>
                            ELSE <<>>)
           /\ wSid' = SidAfter(wKind, wSid, x.arrived, hdr)
           /\ wClock' = x.clock
    /\ wPc' = "call"
    /\ UNCHANGED <<wKind, wMethod, wErr>>

\* the real request, id 2, and its answer
WireCall(d, reply, hdr) ==
    /\ wPc = "call"
    /\ hdr => IsHTTP(wKind)
    /\ LET x   == Exchanged(wKind, wClock, d)
           out == Outcome(x, reply)
       IN  /\ wLog' = wLog \o <<Request(wKind, wMethod, 2, wSid)>>
                        \o (IF x.arrived THEN <<Response(wMethod, reply, hdr)>> ELSE <<>>)
           /\ wSid' = SidAfter(wKind, wSid, x.arrived, hdr)
           /\ wClock' = x.clock
           /\ wErr' = IF out = "result" THEN "" ELSE CallFailure(wKind, wMethod, out)
    /\ wPc' = "close"
    /\ UNCHANGED <<wKind, wMethod>>

\* The driver returns. forwardHTTP's deferred closeSession (609-624) sends a
\* DELETE when it holds a session id; no other driver has anything to send.
WireClose(d) ==
    /\ wPc = "close"
    /\ IF wKind = "forwardHTTP" /\ wSid # ""
       THEN /\ wLog' = Append(wLog, Event("out", "DELETE", "", 0, wSid, ""))
            /\ wClock' = Exchanged(wKind, wClock, d).clock
       ELSE /\ d = 0
            /\ UNCHANGED <<wLog, wClock>>
    /\ wPc' = "returned"
    /\ UNCHANGED <<wKind, wMethod, wSid, wErr>>

WireInit ==
    /\ wKind = "forwardHTTP"
    /\ wMethod = ""
    /\ wPc = "idle"
    /\ wLog = <<>>
    /\ wSid = ""
    /\ wClock = 0
    /\ wErr = ""

(***************************************************************************)
(* SpecAll: CheckAll (manager.go:537-545) over a Registry that the HTTP    *)
(* handlers change while it runs. A Check is a call that starts, runs for  *)
(* a while and returns nil or an error.                                    *)
(***************************************************************************)
AllNames == {"a", "b", "c"}

\* (a loop that starts each Check in a goroutine of its own: go m.Check(name))
CallReturnsAtOnce(active) == TRUE

\* m.Check(name) is an ordinary call: the loop goes on when it has returned.
CallReturned(active) == active = {}

\* CheckAll is called (by the health loop or by a handler); line 539,
\* store.Get(), copies the servers and their Enabled flags.
CheckAllBegin ==
    /\ caPc \in {"idle", "done"}
    /\ caSweeps < MaxSweeps
    /\ caSweeps' = caSweeps + 1
    /\ caSnap' = caReg
    /\ caTodo' = DOMAIN caReg
    /\ caCalls' = <<>>
    /\ caPc' = "range"
    /\ UNCHANGED <<caReg, caActive>>

\* One turn of "for name, srv := range cfg.MCPServers" (the order is the
\* map's): Check(name) is called if srv.Enabled, line 541-542.
CheckAllTurn(name) ==
    /\ caPc = "range"
    /\ name \in caTodo
    /\ CallReturned(caActive)
    /\ caTodo' = caTodo \ {name}
    /\ IF caSnap[name]
       THEN /\ caActive' = caActive \cup {name}
            /\ caCalls' = Append(caCalls, [name |-> name, err |-> "running"])
       ELSE UNCHANGED <<caActive, caCalls>>
    /\ UNCHANGED <<caReg, caSnap, caPc, caSweeps>>

\* Check(name) returns; CheckAll drops what it returns.
CheckReturns(name, err) ==
    /\ name \in caActive
    /\ caActive' = caActive \ {name}
    /\ caCalls' = [i \in DOMAIN caCalls |->
                     IF caCalls[i].name = name /\ caCalls[i].err = "running"
                     THEN [caCalls[i] EXCEPT !.err = err]
                     ELSE caCalls[i]]
    /\ UNCHANGED <<caReg, caSnap, caTodo, caPc, caSweeps>>

\* The range is over and the last Check has returned: CheckAll returns.
CheckAllEnd ==
    /\ caPc = "range"
    /\ caTodo = {}
    /\ CallReturned(caActive)
    /\ caPc' = "done"
    /\ UNCHANGED <<caReg, caSnap, caTodo, caActive, caCalls, caSweeps>>

\* PUT /api/servers/{name} with another Enabled (Store.AddServer).
RegistryEnable(name, en) ==
    /\ name \in DOMAIN caReg
    /\ caReg[name] # en
    /\ caReg' = [caReg EXCEPT ![name] = en]
    /\ UNCHANGED <<caSnap, caTodo, caActive, caCalls, caPc, caSweeps>>

\* DELETE /api/servers/{name} (Store.RemoveServer).
RegistryRemove(name) ==
    /\ name \in DOMAIN caReg
    /\ caReg' = [n \in DOMAIN caReg \ {name} |-> caReg[n]]
    /\ UNCHANGED <<caSnap, caTodo, caActive, caCalls, caPc, caSweeps>>

AllInit ==
    /\ caReg = [n \in AllNames |-> n # "b"]
    /\ caSnap = <<>>
    /\ caTodo = {}
    /\ caActive = {}
    /\ caCalls = <<>>
    /\ caPc = "idle"
    /\ caSweeps = 0

(***************************************************************************)
(* SpecList: tools/list, prompts/list, resources/list and                  *)
(* resources/templates/list of handleMCPProxy, served by two handler       *)
(* goroutines side by side, with initialize and DELETE between their       *)
(* steps. A route map is the set of its keys.                              *)
(***************************************************************************)
ListHandlers == {"h1", "h2"}

ListSessions == {1, 2}

\* what an aggregation can come back with
RouteSets == {{}, {"a__t"}}

IdleList == [pc |-> "idle", sid |-> 0, method |-> "", routes |-> {}]

\* the mutation of updateSession: the new routes are added to the old ones
updateSessionMerging(st, sid, method, routes) ==
    IF sid \notin DOMAIN st THEN st
    ELSE [st EXCEPT ![sid][RouteField(method)] = @ \cup routes]

\* updateSessionTools / updateSessionPrompts / updateSessionResources /
\* updateSessionResourceTemplates: under the write lock, the session's map
\* for the method is replaced; nothing happens when the session is gone
updateSession(st, sid, method, routes) ==
    IF sid \notin DOMAIN st THEN st
    ELSE [st EXCEPT ![sid][RouteField(method)] = routes]

\* handleMCPInitialize: a new session with four empty maps
ListInitialize ==
    /\ lsNext \in ListSessions
    /\ lsState' = [k \in DOMAIN lsState \cup {lsNext} |->
                     IF k = lsNext THEN NewSession ELSE lsState[k]]
    /\ lsNext' = lsNext + 1
    /\ UNCHANGED lsReq

\* a list request of a live session: hasSession, then the aggregation over
\* the downstream servers, which touches no session
ListAggregate(h, sid, method, routes) ==
    /\ lsReq[h].pc = "idle"
    /\ hasSession(lsState, sid)
    /\ lsReq' = [lsReq EXCEPT ![h] = [pc |-> "update", sid |-> sid,
                                       method |-> method, routes |-> routes]]
    /\ UNCHANGED <<lsState, lsNext>>

\* the call of updateSession...
ListUpdate(h) ==
    /\ lsReq[h].pc = "update"
    /\ lsState' = updateSession(lsState, lsReq[h].sid, lsReq[h].method, lsReq[h].routes)
    /\ lsReq' = [lsReq EXCEPT ![h].pc = "done"]
    /\ UNCHANGED lsNext

\* writeRPCResult: the handler returns
ListRespond(h) ==
    /\ lsReq[h].pc = "done"
    /\ lsReq' = [lsReq EXCEPT ![h] = IdleList]
    /\ UNCHANGED <<lsState, lsNext>>

\* handleMCPDelete
ListDelete(sid) ==
    /\ sid \in DOMAIN lsState
    /\ lsState' = [k \in DOMAIN lsState \ {sid} |-> lsState[k]]
    /\ UNCHANGED <<lsNext, lsReq>>

ListInit ==
    /\ lsState = <<>>
    /\ lsNext = 1
    /\ lsReq = [h \in ListHandlers |-> IdleList]

(***************************************************************************)
(* SpecStore: the mutations of the Registry (config.Store) with a write of *)
(* the document that can fail, and the handlers that change the interval:  *)
(* PUT /api/settings, served by two goroutines side by side, and PUT       *)
(* /api/config and POST /api/config/import. A descriptor is its Enabled.   *)
(***************************************************************************)
RegNames == {"a"}

RegIntervals == {0, 30}

SettingsHandlers == {"s1", "s2"}

\* what a request body decodes to as config.Config
RegConfigs ==
    UNION {[servers : [S -> BOOLEAN], interval : RegIntervals] : S \in SUBSET RegNames}

NoMutation == [op |-> "", err |-> FALSE, before |-> [servers |-> <<>>, interval |-> 0]]

IdleSettings == [pc |-> "idle", value |-> 0]

\* what Set, AddServer, RemoveServer and SetHealthCheckInterval share: under
\* s.mu the new value is put into s.config, then saveLocked writes s.config
\* to s.path and its error is returned
mutate(op, cfg, written) ==
    /\ regConfig' = cfg
    /\ regSaved' = IF written THEN cfg ELSE regSaved
    /\ regLast' = [op |-> op, err |-> ~written, before |-> regConfig]

\* Store.AddServer, from PUT /api/servers/{name}
AddServer(name, en, written) ==
    /\ mutate("AddServer",
              [regConfig EXCEPT !.servers =
                  [n \in DOMAIN regConfig.servers \cup {name} |->
                      IF n = name THEN en ELSE regConfig.servers[n]]],
              written)
    /\ UNCHANGED <<mgrHealthInterval, setReq>>

\* Store.RemoveServer, from DELETE /api/servers/{name}
RemoveServer(name, written) ==
    /\ mutate("RemoveServer",
              [regConfig EXCEPT !.servers =
                  [n \in DOMAIN regConfig.servers \ {name} |-> regConfig.servers[n]]],
              written)
    /\ UNCHANGED <<mgrHealthInterval, setReq>>

\* Store.Set, from PUT /api/config and POST /api/config/import: the decoded
\* Config becomes s.config, its healthCheckInterval included
Set(cfg, written) ==
    /\ mutate("Set", cfg, written)
    /\ UNCHANGED <<mgrHealthInterval, setReq>>

\* PUT /api/settings: the body is decoded
SettingsDecode(h, seconds) ==
    /\ setReq[h].pc = "idle"
    /\ setReq' = [setReq EXCEPT ![h] = [pc |-> "store", value |-> seconds]]
    /\ UNCHANGED <<regConfig, regSaved, regLast, mgrHealthInterval>>

\* ... s.store.SetHealthCheckInterval: on an error the handler answers 500
SetHealthCheckInterval(h, written) ==
    /\ setReq[h].pc = "store"
    /\ mutate("SetHealthCheckInterval",
              [regConfig EXCEPT !.interval = setReq[h].value], written)
    /\ setReq' = [setReq EXCEPT ![h] = IF written THEN [@ EXCEPT !.pc = "manager"]
                                       ELSE IdleSettings]
    /\ UNCHANGED mgrHealthInterval

\* ... s.mgr.SetHealthInterval, and the handler answers ok
SettingsManager(h) ==
    /\ setReq[h].pc = "manager"
    /\ mgrHealthInterval' = setReq[h].value
    /\ setReq' = [setReq EXCEPT ![h] = IdleSettings]
    /\ UNCHANGED <<regConfig, regSaved, regLast>>

\* Load has read the document, manager.New has read the interval from it
StoreInit ==
    /\ regConfig = [servers |-> <<>>, interval |-> 0]
    /\ regSaved = regConfig
    /\ regLast = NoMutation
    /\ mgrHealthInterval = regConfig.interval
    /\ setReq = [h \in SettingsHandlers |-> IdleSettings]

(***************************************************************************)
(* SpecOverlap: Check (manager.go:166-210) of one registered name, called  *)
(* from three goroutines that nothing keeps apart: the startup CheckAll    *)
(* (main.go:51), the CheckAll of the health loop (main.go:54) and the      *)
(* check a handler starts (part_000:156, 175). Each write of Status is one *)
(* critical section of m.mu.                                               *)
(***************************************************************************)
Checkers == {"startup", "loop", "manual"}

IdleChecker == [pc |-> "idle", err |-> ""]

\* Check is called: GetServer and getOrCreateInfo find the name
OverlapCall(t) ==
    /\ ovTask[t].pc = "idle"
    /\ ovTask' = [ovTask EXCEPT ![t].pc = "mark"]
    /\ UNCHANGED <<ovStatus, ovError>>

\* "Mark as checking" (manager.go:177-182)
OverlapMark(t) ==
    /\ ovTask[t].pc = "mark"
    /\ ovStatus' = StatusChecking
    /\ ovError' = ""
    /\ ovTask' = [ovTask EXCEPT ![t].pc = "doCheck"]

\* err := m.doCheck(name, srv, info) returns
OverlapDoCheck(t, err) ==
    /\ ovTask[t].pc = "doCheck"
    /\ ovTask' = [ovTask EXCEPT ![t] = [pc |-> "finish", err |-> err]]
    /\ UNCHANGED <<ovStatus, ovError>>

\* the final transition (manager.go:196-206), and Check returns
OverlapFinish(t) ==
    /\ ovTask[t].pc = "finish"
    /\ ovStatus' = FinalStatus(ovTask[t].err)
    /\ ovError' = ovTask[t].err
    /\ ovTask' = [ovTask EXCEPT ![t] = IdleChecker]

OverlapInit ==
    /\ ovStatus = StatusUnchecked
    /\ ovError = ""
    /\ ovTask = [t \in Checkers |-> IdleChecker]

(***************************************************************************)
(* SpecOrder: every Lock, RLock and Unlock of Manager.mu, Store.mu,        *)
(* Manager.healthMu and Manager.listMu, in the order each operation makes  *)
(* them. A task runs its operation again and again. A sync.RWMutex lets no *)
(* new reader in while a writer waits.                                     *)
(***************************************************************************)
Mutexes == {"mu", "store", "healthMu", "listMu"}

OrderTasks == {"CheckAll", "GetAllInfo", "Delete", "Settings", "OnChange"}

Lk(mutex, mode) == [op |-> "lock", mutex |-> mutex, mode |-> mode]

Un(mutex, mode) == [op |-> "unlock", mutex |-> mutex, mode |-> mode]

\* a critical section with nothing locked inside
Section(mutex, mode) == <<Lk(mutex, mode), Un(mutex, mode)>>

\* Check (manager.go:166-210): store.GetServer; getOrCreateInfo, which calls
\* store.GetServer under m.mu; the mark; notify; doCheck's write of Tools
\* (347-349); the final status; notify
CheckProgram ==
    Section("store", "r")
        \o <<Lk("mu", "w")>> \o Section("store", "r") \o <<Un("mu", "w")>>
        \o Section("mu", "w") \o Section("listMu", "r")
        \o Section("mu", "w") \o Section("mu", "w") \o Section("listMu", "r")

\* one round of StartHealthLoop: the interval is read (550-552), then
\* CheckAll: store.Get (539) and Check
CheckAllProgram == Section("healthMu", "r") \o Section("store", "r") \o CheckProgram

\* GetAllInfo (614-624) over two names: store.Get; GetInfo of a name without
\* a record (586-590); GetInfo of a name with one (586-588, 603-610)
GetAllInfoProgram ==
    Section("store", "r")
        \o Section("mu", "r") \o Section("store", "r")
        \o Section("mu", "r") \o Section("mu", "r")

\* (a DELETE that calls the manager from inside the Registry's lock)
DeleteProgramNested == <<Lk("store", "w")>> \o Section("mu", "w") \o <<Un("store", "w")>>

\* DELETE /api/servers/{name} (part_000:165-167): Manager.RemoveServer, then
\* Store.RemoveServer
DeleteProgram == Section("mu", "w") \o Section("store", "w")

\* PUT /api/settings (part_000:266-270): Store.SetHealthCheckInterval, then
\* Manager.SetHealthInterval
SettingsProgram == Section("store", "w") \o Section("healthMu", "w")

\* OnChange (manager.go:115-119)
OnChangeProgram == Section("listMu", "w")

ProgramOf(t) ==
    CASE t = "CheckAll" -> CheckAllProgram
      [] t = "GetAllInfo" -> GetAllInfoProgram
      [] t = "Delete" -> DeleteProgram
      [] t = "Settings" -> SettingsProgram
      [] t = "OnChange" -> OnChangeProgram

FreeMutex == [w |-> "none", r |-> {}, pending |-> {}]

AtEnd(t) == dlPc[t] > Len(ProgramOf(t))

\* the statement task t is at
Statement(t) == ProgramOf(t)[dlPc[t]]

\* Lock is called: from now on no new reader gets in
OrderRequest(t) ==
    /\ ~AtEnd(t)
    /\ Statement(t).op = "lock" /\ Statement(t).mode = "w"
    /\ t \notin dlLock[Statement(t).mutex].pending
    /\ dlLock' = [dlLock EXCEPT ![Statement(t).mutex].pending = @ \cup {t}]
    /\ UNCHANGED dlPc

\* whether the Lock or RLock task t is at can return
Obtainable(t) ==
    LET l == dlLock[Statement(t).mutex]
    IN  IF Statement(t).mode = "w"
        THEN t \in l.pending /\ l.w = "none" /\ l.r = {}
        ELSE l.w = "none" /\ l.pending = {}

\* Lock or RLock returns
OrderAcquire(t) ==
    /\ ~AtEnd(t)
    /\ Statement(t).op = "lock"
    /\ Obtainable(t)
    /\ dlLock' = [dlLock EXCEPT ![Statement(t).mutex] =
                    IF Statement(t).mode = "w"
                    THEN [@ EXCEPT !.w = t, !.pending = @ \ {t}]
                    ELSE [@ EXCEPT !.r = @ \cup {t}]]
    /\ dlPc' = [dlPc EXCEPT ![t] = @ + 1]

\* Unlock or RUnlock
OrderRelease(t) ==
    /\ ~AtEnd(t)
    /\ Statement(t).op = "unlock"
    /\ dlLock' = [dlLock EXCEPT ![Statement(t).mutex] =
                    IF Statement(t).mode = "w"
                    THEN [@ EXCEPT !.w = "none"]
                    ELSE [@ EXCEPT !.r = @ \ {t}]]
    /\ dlPc' = [dlPc EXCEPT ![t] = @ + 1]

\* the operation returns, and is called again
OrderReturn(t) ==
    /\ AtEnd(t)
    /\ dlPc' = [dlPc EXCEPT ![t] = 1]
    /\ UNCHANGED dlLock

OrderInit ==
    /\ dlPc = [t \in OrderTasks |-> 1]
    /\ dlLock = [m \in Mutexes |-> FreeMutex]

Init ==
    /\ MgrInit /\ LogInit /\ CopyInit /\ LoopInit /\ ProxyInit
    /\ RouteInit /\ PureInit /\ ReadInit /\ SessInit /\ StdioInit
    /\ LockInit /\ WireInit /\ AllInit /\ ListInit /\ StoreInit
    /\ OverlapInit /\ OrderInit

Next ==
    \/ \E p \in Procs, n \in CheckNames : CheckStart(p, n) /\ UNCHANGED otherThanMgr
    \/ \E p \in Procs : CheckGetInfo(p) /\ UNCHANGED otherThanMgr
    \/ \E p \in Procs : CheckMark(p) /\ UNCHANGED otherThanMgr
    \/ \E p \in Procs : CheckLog(p) /\ UNCHANGED otherThanMgr
    \/ \E p \in Procs, ph \in {"entry", "exit"} : CheckNotify(p, ph) /\ UNCHANGED otherThanMgr
    \/ \E p \in Procs, out \in {"missing", "init_error", "tools_error", "ok"} :
          CheckDo(p, out) /\ UNCHANGED otherThanMgr
    \/ \E p \in Procs : CheckFinish(p) /\ UNCHANGED otherThanMgr
    \/ \E t \in pending : TaskRun(t) /\ UNCHANGED otherThanMgr
    \/ OnChange /\ UNCHANGED otherThanMgr

Spec == Init /\ [][Next]_vars

NextLog == AppendLog

SpecLog == Init /\ [][NextLog]_vars

NextCopy ==
    \/ StoreGet /\ UNCHANGED otherThanCopy
    \/ \E n \in Names : StoreGetServer(n) /\ UNCHANGED otherThanCopy
    \/ \E n \in Names : StoreAddServer(n) /\ UNCHANGED otherThanCopy
    \/ \E n \in Names : StoreSet(n) /\ UNCHANGED otherThanCopy
    \/ \E n \in Names, ok \in BOOLEAN : MgrCheck(n, ok) /\ UNCHANGED otherThanCopy
    \/ \E n \in Names : MgrGetInfo(n) /\ UNCHANGED otherThanCopy
    \/ MgrGetAllInfo /\ UNCHANGED otherThanCopy
    \/ \E a \in 1 .. Len(heap) : \E s \in SlotsOf(heap[a]) :
          CallerWrite(a, s) /\ UNCHANGED otherThanCopy

SpecCopy == Init /\ [][NextCopy]_vars

NextLoop ==
    \/ \E v \in Intervals : SetHealthInterval(v) /\ UNCHANGED otherThanLoop
    \/ StopHealthLoop /\ UNCHANGED otherThanLoop
    \/ LoopRead /\ UNCHANGED otherThanLoop
    \/ LoopStopped /\ UNCHANGED otherThanLoop
    \/ LoopPollFired /\ UNCHANGED otherThanLoop
    \/ LoopCheckAll /\ UNCHANGED otherThanLoop
    \/ LoopCheckAllDone /\ UNCHANGED otherThanLoop
    \/ Tick /\ UNCHANGED otherThanLoop

SpecLoop == Init /\ [][NextLoop]_vars

\* The goroutine of StartHealthLoop is scheduled whenever it can take a step
\* (the Go scheduler starves no runnable goroutine), and CheckAll returns:
\* each of its Checks runs under deadlines.
LoopStep ==
    /\ \/ LoopRead
       \/ LoopStopped
       \/ LoopPollFired
       \/ LoopCheckAll
       \/ LoopCheckAllDone
    /\ UNCHANGED otherThanLoop

SpecLoopLive == Init /\ [][NextLoop]_vars /\ WF_vars(LoopStep)

NextProxy ==
    \/ \E verb \in {"POST", "GET"}, body \in {"json", "garbage"}, m \in Methods,
          sid \in Headers, p \in Params :
          Receive(verb, body, m, sid, p) /\ UNCHANGED otherThanProxy
    \/ Dispatch /\ UNCHANGED otherThanProxy
    \/ \E routes \in {{}, {"plain"}} : Aggregate(routes) /\ UNCHANGED otherThanProxy
    \/ UpdateSession /\ UNCHANGED otherThanProxy
    \/ Resolve /\ UNCHANGED otherThanProxy
    \/ \E out \in {"no_server", "error", "ok"} : Forward(out) /\ UNCHANGED otherThanProxy
    \/ Respond /\ UNCHANGED otherThanProxy
    \/ \E sid \in Headers : Delete(sid) /\ UNCHANGED otherThanProxy

SpecProxy == Init /\ [][NextProxy]_vars

NextRoute ==
    \/ \E n \in RouteServers, en \in BOOLEAN : RegistrySet(n, en) /\ UNCHANGED otherThanRoute
    \/ \E order \in Orders(RouteServers), ok \in [RouteServers -> BOOLEAN] :
          ToolsList(order, ok) /\ UNCHANGED otherThanRoute
    \/ \E name \in CallNames, out \in {"ok", "error"} :
          ToolsCall(name, out) /\ UNCHANGED otherThanRoute

SpecRoute == Init /\ [][NextRoute]_vars

NextPure ==
    \/ ResolveProxied /\ UNCHANGED otherThanPure
    \/ ResolvePlain /\ UNCHANGED otherThanPure
    \/ CodecRoundTrip /\ UNCHANGED otherThanPure
    \/ ParseRaw /\ UNCHANGED otherThanPure
    \/ Decode /\ UNCHANGED otherThanPure
    \/ DecodeHTTP /\ UNCHANGED otherThanPure
    \/ StdioForward /\ UNCHANGED otherThanPure
    \/ Register /\ UNCHANGED otherThanPure
    \/ ForwardStdioRead /\ UNCHANGED otherThanPure
    \/ Return /\ UNCHANGED otherThanPure

SpecPure == Init /\ [][NextPure]_vars

NextRead ==
    \/ \E order \in Orders(ReadServers), how \in [ReadServers -> Listings] :
          ResourcesList(order, how) /\ UNCHANGED otherThanRead
    \/ \E order \in Orders(ReadServers), how \in [ReadServers -> Listings] :
          TemplatesList(order, how) /\ UNCHANGED otherThanRead
    \/ \E transport \in {"http", "stdio"}, uri \in ReadURIs, out \in {"ok", "error"} :
          ResourcesRead(transport, uri, out) /\ UNCHANGED otherThanRead

SpecRead == Init /\ [][NextRead]_vars

NextSess ==
    \/ \E kind \in SessKinds, method \in ListMethods \cup ForwardMethods \cup {""} :
          SessBegin(kind, method) /\ UNCHANGED otherThanSess
    \/ \E ok \in BOOLEAN : ConfigStep(ok) /\ UNCHANGED otherThanSess
    \/ \E ok \in BOOLEAN : SpawnChild(ok) /\ UNCHANGED otherThanSess
    \/ \E ok \in BOOLEAN : InitializeStep(ok) /\ UNCHANGED otherThanSess
    \/ \E ok \in BOOLEAN : NotifyStep(ok) /\ UNCHANGED otherThanSess
    \/ \E f \in ToolsFaults \cup {""} : ToolsStep(f) /\ UNCHANGED otherThanSess
    \/ \E ok \in BOOLEAN : CallStep(ok) /\ UNCHANGED otherThanSess
    \/ SessFinish /\ UNCHANGED otherThanSess
    \/ SessReturn /\ UNCHANGED otherThanSess

SpecSession == Init /\ [][NextSess]_vars

NextStdio ==
    \/ \E line \in StdinLines : ReadLine(line) /\ UNCHANGED otherThanStdio
    \/ \E code \in {-32700, -32602, -32601, -32000, 0} :
          Answer(code) /\ UNCHANGED otherThanStdio
    \/ EndOfInput /\ UNCHANGED otherThanStdio

SpecStdio == Init /\ [][NextStdio]_vars

NextLock ==
    \/ (\E t \in Tasks : Acquire(t)) /\ UNCHANGED otherThanLock
    \/ (\E t \in Tasks : PlainBegin(t)) /\ UNCHANGED otherThanLock
    \/ (\E t \in Tasks : PlainEnd(t)) /\ UNCHANGED otherThanLock
    \/ (\E t \in Tasks : StoreGetServerReturn(t)) /\ UNCHANGED otherThanLock
    \/ GetOrCreateLookup("check") /\ UNCHANGED otherThanLock
    \/ GetOrCreateReturn("check") /\ UNCHANGED otherThanLock
    \/ LockedWriteEnd("check") /\ UNCHANGED otherThanLock
    \/ SpawnStderr /\ UNCHANGED otherThanLock
    \/ StderrLine /\ UNCHANGED otherThanLock
    \/ KillChild /\ UNCHANGED otherThanLock
    \/ StderrDone /\ UNCHANGED otherThanLock
    \/ AwaitStderr /\ UNCHANGED otherThanLock
    \/ GetInfoLookup /\ UNCHANGED otherThanLock
    \/ GetInfoCopy /\ UNCHANGED otherThanLock
    \/ MgrRemoveServer /\ UNCHANGED otherThanLock
    \/ StoreRemoveServer /\ UNCHANGED otherThanLock
    \/ CheckAgain /\ UNCHANGED otherThanLock

SpecLock == Init /\ [][NextLock]_vars

NextWire ==
    \/ \E kind \in WireKinds, method \in ForwardMethods \cup {"tools/list"} :
          WireBegin(kind, method) /\ UNCHANGED otherThanWire
    \/ \E d \in Delays, reply \in Replies, hdr \in BOOLEAN :
          WireInitialize(d, reply, hdr) /\ UNCHANGED otherThanWire
    \/ \E d \in Delays, hdr \in BOOLEAN : WireNotify(d, hdr) /\ UNCHANGED otherThanWire
    \/ \E d \in Delays, reply \in Replies, hdr \in BOOLEAN :
          WireCall(d, reply, hdr) /\ UNCHANGED otherThanWire
    \/ \E d \in Delays : WireClose(d) /\ UNCHANGED otherThanWire

SpecWire == Init /\ [][NextWire]_vars

NextAll ==
    \/ CheckAllBegin /\ UNCHANGED otherThanAll
    \/ \E name \in AllNames : CheckAllTurn(name) /\ UNCHANGED otherThanAll
    \/ \E name \in AllNames, err \in {"", "initialize: boom"} :
          CheckReturns(name, err) /\ UNCHANGED otherThanAll
    \/ CheckAllEnd /\ UNCHANGED otherThanAll
    \/ \E name \in AllNames, en \in BOOLEAN : RegistryEnable(name, en) /\ UNCHANGED otherThanAll
    \/ \E name \in AllNames : RegistryRemove(name) /\ UNCHANGED otherThanAll

SpecAll == Init /\ [][NextAll]_vars

NextOrder ==
    \/ (\E t \in OrderTasks : OrderRequest(t)) /\ UNCHANGED otherThanOrder
    \/ (\E t \in OrderTasks : OrderAcquire(t)) /\ UNCHANGED otherThanOrder
    \/ (\E t \in OrderTasks : OrderRelease(t)) /\ UNCHANGED otherThanOrder
    \/ (\E t \in OrderTasks : OrderReturn(t)) /\ UNCHANGED otherThanOrder

SpecOrder == Init /\ [][NextOrder]_vars

NextOverlap ==
    \/ \E t \in Checkers : OverlapCall(t) /\ UNCHANGED otherThanOverlap
    \/ \E t \in Checkers : OverlapMark(t) /\ UNCHANGED otherThanOverlap
    \/ \E t \in Checkers, err \in {"", "initialize: timeout"} :
          OverlapDoCheck(t, err) /\ UNCHANGED otherThanOverlap
    \/ \E t \in Checkers : OverlapFinish(t) /\ UNCHANGED otherThanOverlap

SpecOverlap == Init /\ [][NextOverlap]_vars

NextStore ==
    \/ \E name \in RegNames, en \in BOOLEAN, written \in BOOLEAN :
          AddServer(name, en, written) /\ UNCHANGED otherThanStore
    \/ \E name \in RegNames, written \in BOOLEAN :
          RemoveServer(name, written) /\ UNCHANGED otherThanStore
    \/ \E cfg \in RegConfigs, written \in BOOLEAN : Set(cfg, written) /\ UNCHANGED otherThanStore
    \/ \E h \in SettingsHandlers, seconds \in RegIntervals :
          SettingsDecode(h, seconds) /\ UNCHANGED otherThanStore
    \/ \E h \in SettingsHandlers, written \in BOOLEAN :
          SetHealthCheckInterval(h, written) /\ UNCHANGED otherThanStore
    \/ \E h \in SettingsHandlers : SettingsManager(h) /\ UNCHANGED otherThanStore

SpecStore == Init /\ [][NextStore]_vars

NextList ==
    \/ ListInitialize /\ UNCHANGED otherThanList
    \/ \E h \in ListHandlers, sid \in ListSessions, m \in ListMethods, routes \in RouteSets :
          ListAggregate(h, sid, m, routes) /\ UNCHANGED otherThanList
    \/ \E h \in ListHandlers : ListUpdate(h) /\ UNCHANGED otherThanList
    \/ \E h \in ListHandlers : ListRespond(h) /\ UNCHANGED otherThanList
    \/ \E sid \in ListSessions : ListDelete(sid) /\ UNCHANGED otherThanList

SpecList == Init /\ [][NextList]_vars

(***************************************************************************)
(* Claims about Check and notify, under Spec                               *)
(***************************************************************************)
\* A Check that got its record (it is past getOrCreateInfo).
HasInfo(p) == chk[p].info # 0

Final == {StatusHealthy, StatusError}

\* C1: during one Check(name) of a registered server that no other Check of
\* the same name overlaps, the status of its record goes
\* previous -> checking -> healthy|error and takes no other value, and notify
\* is called exactly twice: once with the status checking, once with the
\* final status.
C1_StatusSequence ==
    \A p \in Procs :
        (HasInfo(p) /\ hist.solo[p]) =>
            LET c == chk[p]
                s == hist.seen[p]
                n == hist.notes[p]
                st == recs[c.info].Status
            IN  /\ c.pc = "mark" => (s = <<>> /\ n = <<>>)
                /\ c.pc \in {"log", "notify1"} =>
                      (Len(s) = 2 /\ s[1] # StatusChecking /\ s[2] = StatusChecking
                       /\ st = StatusChecking /\ n = <<>>)
                /\ c.pc \in {"docheck", "finish"} =>
                      (Len(s) = 2 /\ s[2] = StatusChecking /\ st = StatusChecking
                       /\ n = <<StatusChecking>>)
                /\ c.pc = "notify2" =>
                      (Len(s) = 3 /\ s[2] = StatusChecking /\ s[3] \in Final
                       /\ st = s[3] /\ n = <<StatusChecking>>)
                /\ c.pc = "done" =>
                      (Len(s) = 3 /\ s[2] = StatusChecking /\ s[3] \in Final
                       /\ n = <<StatusChecking, s[3]>>)

\* A Check of a registered server has run to its end alone, with a subscriber.
C1_Witness ==
    \E p \in Procs :
        /\ chk[p].pc = "done" /\ HasInfo(p) /\ hist.solo[p]
        /\ hist.seen[p] = <<StatusUnchecked, StatusChecking, StatusError>>
        /\ Len(hist.notes[p]) = 2
        /\ Len(listeners) >= 1

\* C2: for every Check and every subscriber, the callback of the entry
\* notification runs before the callback of the exit notification: never has
\* the exit callback been scheduled while the entry callback still waits.
C2_EntryBeforeExit ==
    \A p \in Procs : \A l \in 1 .. Len(listeners) :
        ~ (/\ <<p, "entry", l>> \in pending
           /\ chk[p].pc = "done"
           /\ <<p, "exit", l>> \notin pending)

Min(a, b) == IF a < b THEN a ELSE b

\* C4: after any number of appends the log holds at most 500 entries, the
\* entry appended last is its last element, and it holds exactly the newest
\* entries, in the order in which they were appended.
C4_LogCap ==
    /\ Len(infoLogs) <= 500
    /\ Len(infoLogs) = Min(logCount, 500)
    /\ logCount > 0 => infoLogs[Len(infoLogs)] = NthEntry(logCount)
    /\ \A i \in 1 .. Len(infoLogs) :
          infoLogs[i] = NthEntry(logCount - Len(infoLogs) + i)

\* The log has overflowed: more entries were appended than it keeps.
C4_Witness ==
    /\ logCount > 500
    /\ Len(infoLogs) = 500
    /\ infoLogs[1] = NthEntry(logCount - 499)

(***************************************************************************)
(* Claims about copies, under SpecCopy                                     *)
(***************************************************************************)
\* A caller's assignment through a record it got from GetInfo or GetAllInfo
\* leaves the value of the Health manager's records as it was.
WriteKeepsInfos ==
    (lastOp' = "write" /\ held.kind \in {"info", "infos"})
        => StoredInfos(heap', mServers') = StoredInfos(heap, mServers)

\* A Check leaves the value of the records already returned as it was.
CheckKeepsReturned ==
    lastOp' = "Check" => HeldInfos(heap', held') = HeldInfos(heap, held)

\* C5: GetInfo and GetAllInfo return deep copies: no assignment through a
\* returned record (logs, tools and their input schemas, descriptor with
\* args and env, last-check time) changes what the Health manager stores,
\* and no later update by the manager changes a record already returned.
C5_DeepCopies == [][WriteKeepsInfos /\ CheckKeepsReturned]_vars

\* C6: an assignment through a value returned by Get or GetServer, or
\* through a descriptor or document passed to AddServer or Set, never
\* changes the value of the state stored in the Registry.
C6_RegistryIsolation ==
    [][(lastOp' = "write" /\ held.kind \in {"cfg", "srv"})
          => StoredRegistry(heap', storeConfig') = StoredRegistry(heap, storeConfig)]_vars

(***************************************************************************)
(* Claims about the health loop, under SpecLoop                            *)
(***************************************************************************)
\* C7: StopHealthLoop may be called any number of times; a call after the
\* first has no further effect and does not fail: no call ever panics.
C7_StopIdempotent == ~panicked

\* C8: a loop running disabled re-reads the interval every 5 seconds: once
\* SetHealthInterval(v), v > 0, is called on it, and while the loop is not
\* stopped and the interval is left alone, a CheckAll starts no later than
\* 5 + v seconds after the call (6 seconds for v = 1).
C8_EnabledWithinBound ==
    /\ asked.at >= 0 => /\ now <= asked.at + 5 + asked.v
                        /\ loopPc \in {"read", "poll", "wait"}
                        /\ loopPc = "wait" => now + loopTimer <= asked.at + 5 + asked.v
    /\ met.after >= 0 => met.after <= 5 + met.v
    /\ (met.after >= 0 /\ met.v = 1) => met.after <= 6

\* A CheckAll that started exactly 6 seconds after SetHealthInterval(1).
C8_Witness ==
    /\ met.v = 1
    /\ met.after = 6
    /\ loopPc = "checkall"

(***************************************************************************)
(* Claims about sessions, under SpecProxy                                  *)
(***************************************************************************)
\* A decoded POST, other than initialize, that has been answered.
Answered == req.pc = "done" /\ req.verb = "POST" /\ req.body = "json"
                /\ req.method # "initialize"

SessionRefusal == RPCError(-32000, "missing or invalid MCP session")

\* C9: session identifiers exist only through initialize, and every POST
\* other than initialize, whatever its method, whose MCP-Session-Id is absent
\* or names no live session is answered with -32000 "missing or invalid MCP
\* session", calls nothing downstream and changes no session.
C9_SessionRequired ==
    /\ DOMAIN mcpState \subseteq 1 .. (nextSid - 1)
    /\ (Answered /\ ~req.wasLive) =>
          /\ req.resp = SessionRefusal
          /\ ~req.called
          /\ ~req.wrote

\* C10: once DELETE with a session id has completed the session is gone:
\* every later request other than initialize that presents the id is refused
\* as a missing or invalid session, and no request in flight at the time of
\* the DELETE brings the session back.
C10_DeletedStaysGone ==
    /\ deleted \cap DOMAIN mcpState = {}
    /\ (Answered /\ req.afterDelete) => req.resp = SessionRefusal
(***************************************************************************)
(* Claims about tools/list and tools/call, under SpecRoute and SpecPure    *)
(***************************************************************************)
\* the entries of the last tools/list result that carry the called name
EntriesNamed(name) == {i \in DOMAIN list.tools : list.tools[i].Name = name}

\* C11: after a tools/list, for every entry of the returned list, a
\* tools/call with the entry's proxied name is forwarded to the downstream
\* server that exported the entry, with the tool's original name; two
\* distinct (server, tool) pairs never share a proxied name or a route entry.
C11_RoutingUnambiguous ==
    /\ \A i \in DOMAIN list.tools :
           /\ list.tools[i].Name \in DOMAIN toolRoutes
           /\ toolRoutes[list.tools[i].Name] = list.tools[i].from
    /\ call.done =>
           \A i \in EntriesNamed(call.name) :
               call.forwarded /\ call.to = list.tools[i].from

\* C12: for every server name n and tool name t, the proxied name
\* n + "__" + t resolves without a session route map to exactly (n, t); a
\* name that contains no "__" resolves to not-found.
C12_NameRoundTrip ==
    applied.fn = "resolveToolRoute" =>
        IF applied.joined
        THEN applied.out.ok /\ applied.out.route = toolRoute(applied.n, applied.t)
        ELSE IndexOf(applied.n, NameSep) = 0 => ~applied.out.ok

\* what tools/list is to return: the tools of the servers that were enabled
\* and whose listing succeeded, under their proxied names
ExpectedTools(en, ok) ==
    {[Name |-> ProxiedName(n, Exports[n][i]), from |-> toolRoute(n, Exports[n][i])] :
        <<n, i>> \in {p \in RouteServers \X (1 .. 2) :
                         en[p[1]] /\ ok[p[1]] /\ p[2] \in DOMAIN Exports[p[1]]}}

\* C14: tools/list answers with a result, never an error, and the result
\* holds exactly the tools of the servers that are enabled in the snapshot
\* and whose own tools/list succeeded, each under <server>__<tool>, each once;
\* a disabled server and a server whose listing fails contribute nothing.
C14_ListIsEnabledAndListed ==
    list.kind # "none" =>
        /\ list.kind = "result"
        /\ {list.tools[i] : i \in DOMAIN list.tools} = ExpectedTools(list.en, list.ok)
        /\ Len(list.tools) = Cardinality(ExpectedTools(list.en, list.ok))

\* a list taken while one server was disabled, one failed and one answered
C14_Witness ==
    /\ list.kind = "result"
    /\ \E n \in RouteServers : ~list.en[n]
    /\ \E n \in RouteServers : list.en[n] /\ ~list.ok[n]
    /\ \E n \in RouteServers : list.en[n] /\ list.ok[n]
    /\ Len(list.tools) > 0

(***************************************************************************)
(* Claims about the resource URI codec and resources/read                  *)
(***************************************************************************)
HasSlash(str) == \E i \in DOMAIN str : str[i] = "/"

\* the URI a client sent decodes to not-found
RawIsRefused ==
    (applied.fn = "parseProxyResourceURI" /\ ~applied.built) =>
        ((\/ applied.kind = "none"
          \/ applied.server = <<>>
          \/ applied.hex = <<>>
          \/ HexDecode(applied.hex).err) => ~applied.out.ok)

\* C13 as stated: for every original URI s (the empty string included), every
\* server name n without "/" and both modes t, parsing the built proxy URI
\* succeeds and returns (n, s, t); a URI with neither proxy prefix, with an
\* empty server or hex part, or with invalid hex decodes to not-found.
C13_CodecRoundTrip ==
    /\ (applied.fn = "parseProxyResourceURI" /\ applied.built /\ ~HasSlash(applied.n)) =>
           /\ applied.out.ok
           /\ applied.out.route = resourceRoute(applied.n, applied.s, applied.t)
    /\ RawIsRefused

\* C13: for every non-empty original URI s, every non-empty server name n
\* without "/" and both modes t, parsing the built proxy URI succeeds and
\* returns (n, s, t); a URI with neither proxy prefix, with an empty server or
\* hex part, or with invalid hex decodes to not-found.
C13_CodecRoundTripNonEmpty ==
    /\ (/\ applied.fn = "parseProxyResourceURI" /\ applied.built
        /\ ~HasSlash(applied.n) /\ applied.n # <<>> /\ applied.s # <<>>) =>
           /\ applied.out.ok
           /\ applied.out.route = resourceRoute(applied.n, applied.s, applied.t)
    /\ RawIsRefused

\* a template URI of a server with "__" in its name and "/" in the original
C13_Witness ==
    /\ applied.fn = "parseProxyResourceURI" /\ applied.built
    /\ applied.n = <<"a", "_", "_", "b">> /\ applied.t
    /\ applied.s = <<"a", "/">>
    /\ applied.out.ok

\* the last resources/read found its URI nowhere
ReadUnresolved ==
    /\ read.uri \notin DOMAIN resourceRoutes
    /\ read.uri \notin DOMAIN templateRoutes
    /\ ~parseProxyResourceURI(read.uri).ok

\* C15: a resources/read of a URI is resolved by the session's resource
\* route map, else by its template route map, else by the parse of the proxy
\* URI format, and is forwarded to the resolved downstream with the original
\* URI; when all three fail the answer is -32601 and no downstream is called.
\* A proxy URI listed by resources/list reads the resource of the server that
\* listed it.
C15_ReadResolution ==
    (read.done /\ read.uri # <<>>) =>
        /\ \A i \in DOMAIN resources :
               resources[i].uri = read.uri =>
                   /\ read.forwarded
                   /\ read.to = resources[i].from.ServerName
                   /\ read.sent = resources[i].from.OriginalURI
        /\ read.uri \in DOMAIN resourceRoutes =>
               /\ read.forwarded
               /\ read.to = resourceRoutes[read.uri].ServerName
               /\ read.sent = resourceRoutes[read.uri].OriginalURI
        /\ (read.uri \notin DOMAIN resourceRoutes /\ read.uri \in DOMAIN templateRoutes) =>
               /\ read.forwarded
               /\ read.to = templateRoutes[read.uri].ServerName
               /\ read.sent = templateRoutes[read.uri].OriginalURI
        /\ (/\ read.uri \notin DOMAIN resourceRoutes
            /\ read.uri \notin DOMAIN templateRoutes
            /\ parseProxyResourceURI(read.uri).ok
            /\ parseProxyResourceURI(read.uri).route.ServerName \in ReadServers) =>
               /\ read.forwarded
               /\ read.to = parseProxyResourceURI(read.uri).route.ServerName
               /\ read.sent = parseProxyResourceURI(read.uri).route.OriginalURI
        /\ ReadUnresolved => (read.code = -32601 /\ ~read.forwarded)

\* a listed resource of the server with "/" in its name has been read
C15_Witness ==
    /\ read.done /\ read.forwarded
    /\ \E i \in DOMAIN resources :
           resources[i].uri = read.uri /\ resources[i].from.ServerName = ServerSlash
    /\ read.to = ServerSlash /\ read.sent = <<"z">>

(***************************************************************************)
(* Claims about decodeProxyResponse, under SpecPure                        *)
(***************************************************************************)
RECURSIVE Flat(_)
Flat(seqs) == IF seqs = <<>> THEN <<>> ELSE Head(seqs) \o Flat(Tail(seqs))

\* the responses a body carries, in the order of the document
Carried(body) ==
    LET all == IF body.kind = "sse"
               THEN Flat([i \in DOMAIN body.lines |-> body.lines[i].items])
               ELSE body.items
    IN  SelectSeq(all, LAMBDA o : o # BlankObject)

\* C16: given a body that is a single response object, an array of
\* responses, or data: frames carrying either ([DONE] frames ignored), the
\* decoder returns the response whose id equals the expected id wherever it
\* stands; when an id is expected and no response has it, the error
\* "response id=N not found"; when no id is expected, the first response.
C16_DecodeById ==
    (applied.fn = "decodeProxyResponse" /\ Carried(applied.body) # <<>>) =>
        LET c == Carried(applied.body)
            n == applied.expectedID
            hits == {i \in DOMAIN c : c[i].ID = n}
        IN  IF n = 0 THEN applied.out.err = NoError /\ applied.out.resp = c[1]
            ELSE IF hits = {}
                 THEN applied.out.err = [msg |-> "response id=%d not found", id |-> n]
            ELSE /\ applied.out.err = NoError
                 /\ applied.out.resp.ID = n
                 /\ \E i \in hits : applied.out.resp = c[i] /\ \A j \in hits : i <= j

\* the expected response is the last of an event stream, behind a [DONE]
\* line and a response with another id
C16_Witness ==
    /\ applied.fn = "decodeProxyResponse"
    /\ applied.body.kind = "sse" /\ Len(applied.body.lines) = 2
    /\ applied.body.lines[1].data = "object" /\ applied.body.lines[1].items[1].ID = 1
    /\ applied.body.lines[2].data = "object" /\ applied.expectedID = 2
    /\ applied.out.err = NoError /\ applied.out.resp.ID = 2

\* C30: in a health Check over HTTP the decoder hands back the response
\* whose id is the id of the request (1 for the handshake metadata, 2 for
\* the tools), whatever the shape of the body, and never a response with
\* another id.
C30_CheckDecodesById ==
    applied.fn = "decodeHTTPMCPResponse" =>
        LET c == Carried(applied.body)
            hits == {i \in DOMAIN c : c[i].ID = applied.expectedID}
        IN  /\ applied.out.err = NoError => applied.out.resp.ID = applied.expectedID
            /\ hits # {} => (applied.out.err = NoError /\ applied.out.resp \in {c[i] : i \in hits})

(***************************************************************************)
(* Claims about one downstream session, under SpecSession                  *)
(***************************************************************************)
\* C17: in a health Check, once initialize has succeeded, any failure of the
\* tools/list step (send, read, unparsable response, protocol error,
\* unparsable tool list) is logged at level warn and the Check still ends
\* with status healthy and no error message.
C17_ToolsFailureNotFatal ==
    (IsCheck(sessKind) /\ sessPc = "returned" /\ fault # "") =>
        /\ \E i \in DOMAIN sessLogs :
               /\ sessLogs[i] = LogEntry("warn", ToolsFaultMessage(sessKind, fault))
               /\ \E j \in 1 .. i - 1 : sessLogs[j] = LogEntry("info", "MCP initialized")
        /\ \A i \in DOMAIN sessLogs : sessLogs[i].Level # "error"
        /\ sessStatus = StatusHealthy
        /\ sessError = ""

\* a stdio check whose tools/list answer could not be read has ended
C17_Witness ==
    /\ sessKind = "check" /\ sessPc = "returned" /\ fault = "read"
    /\ sessStatus = StatusHealthy

\* C18: in every stdio downstream session (a proxy forward and a health
\* Check alike), once the child has been spawned, every return path has
\* killed the child and waited for it: no child is left running or unreaped
\* after the operation returns.
C18_ChildReaped ==
    (sessPc = "returned" /\ child # "none") => child = "reaped"

Handled == {k \in DOMAIN stdinLines : k < Len(stdinLines) \/ stdioPc # "handle"}

AnswersTo(k) == {i \in DOMAIN stdoutLines : stdoutLines[i].from = k}

\* C19: every request line that carries an id produces exactly one response
\* carrying that same id, and the responses are written in the order in
\* which the requests were read.
C19_OneResponsePerRequest ==
    /\ \A k \in Handled :
           (stdinLines[k].text = "json" /\ stdinLines[k].idForm # "absent") =>
               /\ Cardinality(AnswersTo(k)) = 1
               /\ \A i \in AnswersTo(k) :
                      stdoutLines[i].hasID /\ stdoutLines[i].id = stdinLines[k].id
    /\ \A i, j \in DOMAIN stdoutLines :
           i < j => stdoutLines[i].from < stdoutLines[j].from

\* C20: a message without an id (a notification) never produces any output,
\* whatever its method.
C20_NotificationSilent ==
    \A k \in Handled :
        (stdinLines[k].text = "json" /\ stdinLines[k].idForm = "absent") =>
            AnswersTo(k) = {}

(***************************************************************************)
(* Claims about locks and the life of a record, under SpecLock             *)
(***************************************************************************)
\* what task t is doing to a record right now
Touches(t) == IF task[t].in THEN AccessOf(task[t].pc) ELSE NoAccess

HoldsMu(t, mode) ==
    IF mode = "write" THEN lockMu.w = t ELSE (lockMu.w = t \/ t \in lockMu.r)

\* the locks task t holds
HeldBy(t) ==
    {l \in {"mu", "store"} : TheLock(l).w = t \/ t \in TheLock(l).r}

\* C21: every write to a ServerInfo is made while holding Manager.mu
\* exclusively and every read while holding it at least shared; and no two
\* tasks are inside the Logs of the same record at once when one of them
\* writes.
C21_RecordUnderLock ==
    /\ \A t \in Tasks :
           Touches(t) # NoAccess => HoldsMu(t, Touches(t).mode)
    /\ \A t, u \in Tasks :
           (/\ t # u
            /\ task[t].info = task[u].info
            /\ "Logs" \in Touches(t).fields
            /\ "Logs" \in Touches(u).fields)
           => (Touches(t).mode = "read" /\ Touches(u).mode = "read")

\* C22: no task holds two locks at the same time.
C22_OneLockAtATime ==
    \A t \in Tasks : Cardinality(HeldBy(t)) <= 1

\* C23: once the DELETE handler has run both removals and the Check has
\* returned, the manager holds no record for the name, and a GetInfo that
\* looks from then on reports not-found.
C23_NoRecordAfterRemoval ==
    (task["delete"].pc = "done" /\ task["check"].pc = "done") =>
        /\ lifeServers = 0
        /\ (task["reader"].pc = "done" /\ lifeHist.late) => ~lifeHist.found

\* The loop was asleep at the first StopHealthLoop, its timer not yet due.
StoppedAsleep == stopHist.pc \in {"poll", "wait"} /\ stopHist.timer > 0

C24_StopIsPrompt ==
    stopHist.at >= 0 =>
        /\ StoppedAsleep =>
               /\ loopPc \in {stopHist.pc, "returned"}
               /\ loopPc = "returned" => stopHist.returnedAt = stopHist.at
               /\ stopHist.started = 0
        /\ stopHist.pc = "checkall" =>
               /\ stopHist.started = 0
               /\ loopPc = "returned" => stopHist.returnedAt >= stopHist.at

\* C24: after StopHealthLoop a loop that is asleep (on the 5-second poll or
\* on the interval) returns at once, without another CheckAll; a loop inside
\* a CheckAll finishes it and returns without starting another; and in every
\* case StartHealthLoop comes to an end.
C24_StopEndsLoop ==
    /\ []C24_StopIsPrompt
    /\ (stopHealth = "closed") ~> (loopPc = "returned" \/ panicked)

\* The loop was stopped during a wait on the interval with time left on its
\* timer, and has returned.
C24_Witness ==
    /\ stopHist.pc = "wait"
    /\ stopHist.timer > 0
    /\ loopPc = "returned"
    /\ ~panicked

(***************************************************************************)
(* Claims about one downstream session on the wire, under SpecWire         *)
(***************************************************************************)
Outs == {i \in DOMAIN wLog : wLog[i].dir = "out"}

Ins == {i \in DOMAIN wLog : wLog[i].dir = "in"}

\* the requests of the session that carry the real method
RealRequests == {i \in Outs : wLog[i].id = 2}

\* initialize was sent and nothing came back
InitUnanswered ==
    /\ Len(wLog) >= 1
    /\ wLog[1].method = "initialize"
    /\ ~\E i \in Ins : wLog[i].method = "initialize"

\* C25: every downstream session runs under one deadline for the whole of
\* it: the driver has returned within the timeout, and with an error when
\* the downstream never answered initialize.
C25_OneDeadline ==
    wPc = "returned" =>
        /\ wClock <= (IF IsForward(wKind) THEN proxyTimeout ELSE checkTimeout)
        /\ InitUnanswered => wErr # ""

\* the answer to initialize, if one came
InitAnswers == {i \in Ins : wLog[i].method = "initialize"}

\* the order of what is sent: initialize (id 1), notifications/initialized,
\* the real request (id 2), the real request only after a good answer
SentInOrder ==
    /\ \A i, j \in Outs :
           (i < j /\ wLog[j].verb # "DELETE") =>
               \/ wLog[i].method = "initialize" /\ wLog[i].id = 1
               \/ wLog[i].method = "notifications/initialized" /\ wLog[j].id = 2
    /\ \A j \in RealRequests :
           /\ wLog[j].method = wMethod
           /\ \E i \in InitAnswers : i < j /\ wLog[i].reply = "result"
           /\ \E i \in Outs : i < j /\ wLog[i].method = "notifications/initialized"

\* initialize did not succeed: no answer, no usable answer, or an error
InitFailed ==
    /\ wPc \in {"close", "returned"}
    /\ ~\E i \in InitAnswers : wLog[i].reply = "result"

\* C28 as stated: the order holds, and whenever initialize fails or answers
\* an error the driver returns "initialize: <msg>" and sends no real request.
C28_InitThenCall ==
    /\ SentInOrder
    /\ InitFailed => (wErr = "initialize: boom" /\ RealRequests = {})

\* C28: the driver sends initialize (id 1), notifications/initialized, the
\* real request (id 2), the last only after a good answer to initialize; an
\* error answer to initialize makes it return "initialize: <msg>", any other
\* failure of the initialize exchange makes it return that failure, and in
\* neither case is the real request sent.
C28_InitThenCallOrFailure ==
    /\ SentInOrder
    /\ InitFailed =>
           /\ RealRequests = {}
           /\ wErr # ""
           /\ (\E i \in InitAnswers : wLog[i].reply = "error") => wErr = "initialize: boom"

\* initialize was answered with an error and the driver has returned
C28_Witness ==
    /\ wPc = "returned"
    /\ wKind = "forwardStdio"
    /\ \E i \in InitAnswers : wLog[i].reply = "error"
    /\ wErr = "initialize: boom"

\* C29: in an HTTP session, once a response has carried an MCP-Session-Id,
\* every later request sends that id, and the driver has sent one DELETE
\* with it by the time it returns.
C29_SessionIdEchoed ==
    IsHTTP(wKind) =>
        \A i \in Ins :
            wLog[i].sid # "" =>
                /\ \A j \in Outs : j > i => wLog[j].sid = wLog[i].sid
                /\ wPc = "returned" =>
                       Cardinality({j \in Outs : /\ wLog[j].verb = "DELETE"
                                                 /\ wLog[j].sid = wLog[i].sid}) = 1

(***************************************************************************)
(* Claims about CheckAll, under SpecAll                                    *)
(***************************************************************************)
CallsOf(name) == {i \in DOMAIN caCalls : caCalls[i].name = name}

\* C27: CheckAll calls Check once for every server enabled in the snapshot
\* it took and never for a disabled one, one Check after the other, and goes
\* on to the remaining servers after a Check that failed.
C27_EachEnabledOnce ==
    caPc # "idle" =>
        /\ Cardinality(caActive) <= 1
        /\ \A i \in DOMAIN caCalls :
               /\ caCalls[i].name \in DOMAIN caSnap
               /\ caSnap[caCalls[i].name]
               /\ Cardinality(CallsOf(caCalls[i].name)) = 1
               /\ i < Len(caCalls) => caCalls[i].err # "running"
        /\ \A name \in DOMAIN caSnap \ caTodo :
               caSnap[name] => CallsOf(name) # {}
        /\ caPc = "done" =>
               /\ caTodo = {}
               /\ \A i \in DOMAIN caCalls : caCalls[i].err # "running"

\* CheckAll has returned: the first Check it called failed, a second one
\* followed, and the disabled server was passed over although it had been
\* enabled in the Registry meanwhile.
C27_Witness ==
    /\ caPc = "done"
    /\ Len(caCalls) = 2
    /\ caCalls[1].err # ""
    /\ "b" \in DOMAIN caReg /\ caReg["b"]
    /\ ~caSnap["b"]

(***************************************************************************)
(* Claims about the list methods, under SpecList                           *)
(***************************************************************************)
\* the four route maps of a session
RouteFields == {"Tools", "Prompts", "Resources", "ResourceTemplates"}

\* the map a list method fills, as the specification names it
MapOfListing(method) ==
    CASE method = "tools/list" -> "Tools"
      [] method = "prompts/list" -> "Prompts"
      [] method = "resources/list" -> "Resources"
      [] method = "resources/templates/list" -> "ResourceTemplates"

\* C31: a list call that stores its routes leaves the session's map for
\* that kind of item equal to exactly the routes of that listing (what an
\* earlier listing put there and is no longer listed is gone), the session's
\* three other maps as they were, and every other session as it was.
C31_ListReplacesOneMap ==
    [][\A h \in ListHandlers :
          (lsReq[h].pc = "update" /\ lsReq'[h].pc = "done"
              /\ lsReq[h].sid \in DOMAIN lsState) =>
             LET sid == lsReq[h].sid
                 f   == MapOfListing(lsReq[h].method)
             IN  /\ DOMAIN lsState' = DOMAIN lsState
                 /\ lsState'[sid][f] = lsReq[h].routes
                 /\ \A g \in RouteFields \ {f} : lsState'[sid][g] = lsState[sid][g]
                 /\ \A k \in DOMAIN lsState \ {sid} : lsState'[k] = lsState[k]]_vars

\* two prompts/list of one session have stored their routes, the later one
\* an empty listing over the earlier one's routes, while the session holds
\* tool routes and the other session holds prompt routes
C31_Witness ==
    /\ lsReq["h1"] = [pc |-> "done", sid |-> 1, method |-> "prompts/list", routes |-> {"a__t"}]
    /\ lsReq["h2"] = [pc |-> "done", sid |-> 1, method |-> "prompts/list", routes |-> {}]
    /\ DOMAIN lsState = {1, 2}
    /\ lsState[1].Prompts = {}
    /\ lsState[1].Tools = {"a__t"}
    /\ lsState[2].Prompts = {"a__t"}

(***************************************************************************)
(* Claims about the params of a forwarding method                          *)
(***************************************************************************)
\* C32: a tools/call, prompts/get or resources/read whose params cannot be
\* parsed, or whose name (uri for resources/read) is missing or empty, is
\* answered with the error -32602 and no downstream server is called; here
\* on the stdio binding.
C32_BadParamsRejected ==
    (applied.fn = "runMCPStdio" /\ applied.param \in {"invalid", ""}) =>
        (applied.out.code = -32602 /\ ~applied.out.called)

(***************************************************************************)
(* Claims about the HTTP status of a POST /mcp, under SpecProxy            *)
(***************************************************************************)
\* C33: a request refused for a missing or invalid session is answered with
\* HTTP status 400 carrying the JSON-RPC error -32000, a body that cannot be
\* parsed with HTTP status 400, and every other JSON-RPC error (unknown
\* method, item not found, invalid params, downstream error) with a 2xx
\* status.
C33_StatusOfErrors ==
    (req.pc = "done" /\ req.verb = "POST") =>
        /\ req.body # "json" => req.resp.http = 400
        /\ (req.resp.code = -32000 /\ req.resp.msg = "missing or invalid MCP session") =>
              req.resp.http = 400
        /\ (req.resp.code # 0 /\ req.resp.msg # "missing or invalid MCP session") =>
              req.resp.http \in 200 .. 299

(***************************************************************************)
(* Claims about the Registry and the interval, under SpecStore             *)
(***************************************************************************)
\* C34: a mutation of the Registry (AddServer, RemoveServer, Set,
\* SetHealthCheckInterval) that returns an error leaves the Registry in
\* memory exactly as it was before the call, so that what readers see is
\* always the document last persisted with success.
C34_FailedMutationChangesNothing ==
    /\ regLast.err => regConfig = regLast.before
    /\ regConfig = regSaved

\* C39: once every settings update and every configuration replacement has
\* completed, the interval of the Health manager is the healthCheckInterval
\* of the Registry.
C39_IntervalsAgree ==
    (\A h \in SettingsHandlers : setReq[h].pc = "idle") =>
        mgrHealthInterval = regConfig.interval

(***************************************************************************)
(* Claims about the transport of a registered descriptor, under SpecPure   *)
(***************************************************************************)
\* C35: for a descriptor registered without a type, the health Check and the
\* proxy forward both use streamableHttp if and only if its URL is non-empty
\* and its command is empty, and stdio otherwise; a descriptor registered
\* with a URL, a command and no type is driven over stdio.
C35_TransportInferred ==
    (applied.fn = "AddServer" /\ applied.srv.Type = "") =>
        LET http == applied.srv.URL # "" /\ TrimSpace(applied.srv.Command) = ""
        IN  /\ applied.check = (IF http THEN "streamableHttp" ELSE "stdio")
            /\ applied.forward = (IF http THEN "streamableHttp" ELSE "stdio")

(***************************************************************************)
(* Claims about calls and the Enabled flag, under SpecRoute                *)
(***************************************************************************)
\* C36: a tools/call is forwarded only to a downstream server that is
\* enabled in the Registry at the time of the call, also when the name
\* resolves through a stale session route or through the server__tool
\* naming convention.
C36_OnlyEnabledInvoked ==
    [][(call' # call /\ call'.done /\ call'.forwarded) =>
          enabled[call'.to.ServerName]]_vars

(***************************************************************************)
(* Claims about overlapping Checks, under SpecOverlap                      *)
(***************************************************************************)
\* C37: whenever at least one Check of the name is between its transition
\* to checking and its final transition, the stored status is checking, also
\* when several Checks overlap; the status becomes healthy or error only
\* when the last of them finishes.
C37_CheckingWhileInProgress ==
    (\E t \in Checkers : ovTask[t].pc \in {"doCheck", "finish"}) =>
        ovStatus = StatusChecking

ResultOfLine(line) == IF line.obj.Result = "nil" THEN "{}" ELSE line.obj.Result

Holders(m) == dlLock[m].r \cup (IF dlLock[m].w = "none" THEN {} ELSE {dlLock[m].w})

\* task t is at a Lock or RLock that cannot return now: a writer while the
\* mutex is held, a reader while a writer holds it or waits for it
Waiting(t) ==
    /\ ~AtEnd(t)
    /\ Statement(t).op = "lock"
    /\ IF Statement(t).mode = "w"
       THEN Holders(Statement(t).mutex) # {}
       ELSE ~Obtainable(t)

\* the mutexes task t holds
HeldIn(t) == {m \in Mutexes : t \in Holders(m)}

\* the tasks a waiting task waits for: the holders of the mutex and, for a
\* reader, the writers that wait in front of it
WaitsFor(t) ==
    Holders(Statement(t).mutex)
        \cup (IF Statement(t).mode = "r" THEN dlLock[Statement(t).mutex].pending ELSE {})

\* C40: no interleaving of the operations of the Health manager and the
\* Registry deadlocks: there is never a set of waiting tasks each of which
\* waits only for tasks of the set, and a task that takes a lock while it
\* holds one holds the manager's record lock and takes the Registry's.
C40_NoDeadlock ==
    /\ \A S \in SUBSET OrderTasks :
           S # {} => \E t \in S : ~Waiting(t) \/ ~(WaitsFor(t) \subseteq S)
    /\ \A t \in OrderTasks :
           (~AtEnd(t) /\ Statement(t).op = "lock" /\ HeldIn(t) # {}) =>
               (HeldIn(t) = {"mu"} /\ Statement(t).mutex = "store")

\* Check waits inside getOrCreateInfo, m.mu held, for the Registry's lock
\* that the DELETE handler holds, while GetAllInfo waits for m.mu
C40_Witness ==
    /\ Waiting("CheckAll") /\ HeldIn("CheckAll") = {"mu"}
    /\ Statement("CheckAll").mutex = "store"
    /\ dlLock["store"].w = "Delete"
    /\ Waiting("GetAllInfo") /\ Statement("GetAllInfo").mutex = "mu"

=============================================================================
